---- MODULE Spec2Model ----
(***************************************************************************)
(* Model of the quantum_code front end:                                    *)
(*   - orbital.rs : init_basis / init_basis_impl / cartesian_components    *)
(*   - guess.rs   : guess_hcore                                            *)
(*                                                                         *)
(* Conventions.  Rust Vec positions are 0-based; TLA+ sequences are        *)
(* 1-based.  Index VALUES stored by the program (atom_index, shell_index,  *)
(* prim_offset, order) keep their 0-based Rust value; position p of a      *)
(* TLA+ sequence is Rust position p-1.  f64 values that the code only      *)
(* copies (coordinates, exponents, coefficients) are integers.             *)
(***************************************************************************)
EXTENDS Integers, Sequences, FiniteSets, TLC

VARIABLES
  \* ---- init_basis_impl (orbital.rs) ----
  geometry,       \* the CartesianGeometry argument: [symbols, x, y, z]
  load_basis,     \* what basis::load_basis answers for each element symbol
  pc,             \* position in init_basis_impl: "idle" "load" "emit" "done"
  sym_i,          \* 0-based position of the first loop in geometry.symbols
  element_basis,  \* the HashMap<String, BasisSet>
  load_calls,     \* the symbols load_fn has been invoked with, in order
  atom_idx,       \* enumerate() index of the second loop
  shell_i,        \* 0-based position of the inner loop in bs.shells
  prim_offset,    \* the running `prim_offset` local
  ao,             \* the accumulators n_basis, n_shells, center_x, ...
  emitted,        \* TRUE once a shell has been appended to the accumulators
  result,         \* what init_basis returned
  \* ---- cartesian_components (orbital.rs), loop by loop ----
  cc_pc,          \* "idle" "alloc" "inner" "outer" "done" "panic"
  cc_l,           \* the argument l
  cc_lx,          \* local lx
  cc_ly,          \* local ly
  cc_result,      \* local result
  overflow_checks, \* the build: TRUE when arithmetic overflow panics (debug)
  \* ---- guess_hcore (guess.rs) ----
  g_pc,           \* position in guess_hcore
  s_shape,        \* (s.nrows(), s.ncols())
  t_shape,        \* (t.nrows(), t.ncols())
  v_shape,        \* (v.nrows(), v.ncols())
  n_alpha,        \* argument n_alpha
  n_beta,         \* argument n_beta
  g_events,       \* the matrix work done so far, in order
  lambdas_s,      \* eigenvalues of S as the decomposition returned them
  x_cols,         \* X by column: the eigenvector of S and the eigenvalue scaling it
  energies,       \* eigenvalues of H' as the decomposition returned them
  order,          \* the sorted index vector
  g_result,       \* what guess_hcore returned
  \* ---- fetch_basis_impl (basis.rs) ----
  f_pc,           \* position in fetch_basis_impl
  f_element,      \* argument element, a string as its sequence of characters
  f_basis_name,   \* argument basis_name, likewise
  fs,             \* the cache directory: what each cache path holds
  file_before,    \* what the file at `path` held when the present call began
  f_path,         \* local `path` once it is computed
  f_requests,     \* the URLs requested by the present call, in order
  f_body,         \* local `body` once the response is accepted
  f_result,       \* what fetch_basis_impl returned
  f_first,        \* per cache path, the file its first successful download left
  f_fresh,        \* TRUE when the present call itself made that first download
  l_result,       \* what load_basis_impl returned, the call being made through it
  \* ---- parse_basis (basis.rs) ----
  p_pc,           \* position in parse_basis: "idle" "header" "entry" "done"
  p_doc,          \* the file at `path`
  p_z,            \* local `z`
  p_idx,          \* enumerate() index of the loop over shells_raw
  p_shells,       \* local `shells`
  p_result,       \* what parse_basis returned
  \* ---- parse_cartesian (input.rs) ----
  xyz_pc,         \* position in parse_cartesian
  xyz_sym_val,    \* the value under "symbols" in mol_map
  xyz_geo_val,    \* the value under "geometry" in mol_map
  xyz_factor,     \* argument factor
  xyz_symbols,    \* local `symbols`
  xyz_x,          \* local `x`
  xyz_y,          \* local `y`
  xyz_z,          \* local `z`
  xyz_result,     \* what parse_cartesian returned
  \* ---- parse_zmatrix (input.rs) ----
  zm_pc,          \* position in parse_zmatrix: "idle" "rows" "row" "done"
  zm_val,         \* the value under "z_matrix" in mol_map
  zm_factor,      \* argument factor
  zm_i,           \* enumerate() index of the loop over rows
  zm_geom,        \* the seven local vectors, as the fields of one record
  zm_result       \* what parse_zmatrix returned

basis_vars == <<geometry, load_basis, pc, sym_i, element_basis, load_calls,
                atom_idx, shell_i, prim_offset, ao, emitted, result>>
cc_vars == <<cc_pc, cc_l, cc_lx, cc_ly, cc_result, overflow_checks>>
guess_vars == <<g_pc, s_shape, t_shape, v_shape, n_alpha, n_beta, g_events,
                lambdas_s, x_cols, energies, order, g_result>>
fetch_vars == <<f_pc, f_element, f_basis_name, fs, file_before, f_path,
                f_requests, f_body, f_result, f_first, f_fresh,
                l_result>>
parse_vars == <<p_pc, p_doc, p_z, p_idx, p_shells, p_result>>
xyz_vars == <<xyz_pc, xyz_sym_val, xyz_geo_val, xyz_factor, xyz_symbols, xyz_x,
              xyz_y, xyz_z, xyz_result>>
zm_vars == <<zm_pc, zm_val, zm_factor, zm_i, zm_geom, zm_result>>
vars == <<basis_vars, cc_vars, guess_vars, fetch_vars, parse_vars, xyz_vars, zm_vars>>

(***************************************************************************)
(* Bounds of the model.                                                    *)
(***************************************************************************)
MaxAtoms == 3
MaxL == 7
MaxN == 3
\* Most entries of `electron_shells` in a file
MaxEntries == 2
MaxSymbols == 2
MaxRows == 4

(***************************************************************************)
(* Input domains.                                                          *)
(***************************************************************************)
Symbols == {"H", "O", "C"}

\* Atom positions (x, y, z); the three coordinates of a point differ and the
\* points differ, so a centre copied from the wrong atom or axis shows.
Points == {<<0, 1, 2>>, <<3, 4, 5>>}

\* basis.rs ElectronShell
ElectronShell(l, exps, coefs) ==
  [angular_momentum |-> l, exponents |-> exps, coefficients |-> coefs]

\* Shell lists a basis definition may hold (s only; s, s, p; d then s).
ShellLists ==
  { << ElectronShell(0, <<11, 12, 13>>, <<21, 22, 23>>) >>,
    << ElectronShell(0, <<31, 32, 33>>, <<41, 42, 43>>),
       ElectronShell(0, <<34, 35>>, <<44, 45>>),
       ElectronShell(1, <<36>>, <<46>>) >>,
    << ElectronShell(2, <<51, 52>>, <<61, 62>>),
       ElectronShell(0, <<53>>, <<63>>) >> }

\* The least angular momentum whose (l + 1) * (l + 2) exceeds u32::MAX.
WideL == 2^16 - 1

\* A basis definition whose one shell has that angular momentum.
WideShells == << ElectronShell(WideL, <<71>>, <<81>>) >>

\* basis.rs BasisSet
BasisSet(element, atomic_number, shells) ==
  [element |-> element, atomic_number |-> atomic_number, shells |-> shells]

\* basis.rs LoadError, by variant
LoadErrors == {"Fetch", "Parse"}

\* Result<BasisSet, LoadError> of basis::load_basis(element, basis_name)
\* The element and the atomic number are those of the file: the requested
\* element's, or lithium's when a lithium file is cached under its name.
\* The wide shell is tried for carbon in the build that checks overflow; in
\* the other build the loops over its 2^31 components are not run.
LoadOutcomes(element) ==
  LET z == CASE element = "H" -> 1 [] element = "O" -> 8 [] element = "C" -> 6
  IN { [ok |-> TRUE, value |-> BasisSet(element, z, sl)] :
         sl \in ShellLists
                \cup (IF overflow_checks /\ element = "C" THEN {WideShells} ELSE {}) }
       \cup { [ok |-> TRUE,
               value |-> BasisSet("Li", 3, << ElectronShell(1, <<91>>, <<92>>) >>)] }
       \cup { [ok |-> FALSE, error |-> e] : e \in LoadErrors }

\* The positions of n atoms: each atom at another point than the atom
\* before it.
Positions(n) ==
  { p \in [1..n -> Points] : \A i \in 1..(n - 1) : p[i] # p[i + 1] }

\* input.rs CartesianGeometry with n atoms
GeometriesOf(n) ==
  { [symbols |-> s,
     x |-> [i \in 1..n |-> p[i][1]],
     y |-> [i \in 1..n |-> p[i][2]],
     z |-> [i \in 1..n |-> p[i][3]]] :
       s \in [1..n -> Symbols], p \in Positions(n) }

Geometries == UNION { GeometriesOf(n) : n \in 0..MaxAtoms }


(***************************************************************************)
(* orbital.rs: n_cart and cartesian_components                             *)
(***************************************************************************)
\* A u32 is held as two 16-bit halves, hi * 2^16 + lo, the integers of TLC
\* ending at 2^31 - 1.
Half == 2^16

U32(hi, lo) == [hi |-> hi, lo |-> lo]

\* The u32 of an integer in 0 .. 2^31 - 1, and the integer of a u32 below 2^31.
u32(n) == U32(n \div Half, n % Half)
int(a) == a.hi * Half + a.lo

\* a + b in u32: the wrapped sum, and whether the sum exceeded u32::MAX.
add_u32(a, b) ==
  LET lo == a.lo + b.lo
      hi == a.hi + b.hi + (lo \div Half)
  IN [overflow |-> hi >= Half, value |-> U32(hi % Half, lo % Half)]

\* a / 2 in u32
half_u32(a) == U32(a.hi \div 2, (a.lo \div 2) + (a.hi % 2) * (Half \div 2))

\* a * b in u32, by doubling: the wrapped product, and whether the product
\* exceeded u32::MAX.
RECURSIVE mul_u32(_, _)
mul_u32(a, b) ==
  IF b = U32(0, 0) THEN [overflow |-> FALSE, value |-> U32(0, 0)]
  ELSE LET h == mul_u32(a, half_u32(b))
           d == add_u32(h.value, h.value)
           r == IF b.lo % 2 = 1 THEN add_u32(d.value, a)
                ELSE [overflow |-> FALSE, value |-> d.value]
       IN [overflow |-> h.overflow \/ d.overflow \/ r.overflow, value |-> r.value]

\* `((l + 1) * (l + 2) / 2) as usize` on the u32 l: which operation overflows
\* first ("none", "add", "multiply"; the panic of a build that checks), and
\* the value the wrapping operations give (the return of a build that does
\* not).
n_cart(l) ==
  LET a == add_u32(l, u32(1))
      b == add_u32(l, u32(2))
      p == mul_u32(a.value, b.value)
  IN [overflow |-> IF a.overflow \/ b.overflow THEN "add"
                   ELSE IF p.overflow THEN "multiply" ELSE "none",
      value |-> int(half_u32(p.value))]

\* The tuple pushed by `result.push((lx, ly, l - lx - ly))`.
Triple(l, lx, ly) == <<lx, ly, l - lx - ly>>

\* Faulty variant of InnerBreak: the inner loop stops one pass early.
InnerBreakEarly(ly) == ly <= 1

\* `if ly == 0 { break; }` of the inner loop.
InnerBreak(ly) == ly = 0

\* `if lx == 0 { break; }` of the outer loop.
OuterBreak(lx) == lx = 0

\* `let mut ly = l - lx;` at the head of the outer loop body.
FirstLy(l, lx) == l - lx

\* The two nested loops, run to completion from (lx, ly) with `result`.
RECURSIVE cc_loop(_, _, _, _)
cc_loop(l, lx, ly, res) ==
  LET r == Append(res, Triple(l, lx, ly)) IN
  IF ~InnerBreak(ly) THEN cc_loop(l, lx, ly - 1, r)
  ELSE IF ~OuterBreak(lx) THEN cc_loop(l, lx - 1, FirstLy(l, lx - 1), r)
  ELSE r

\* cartesian_components(l): the panic of `Vec::with_capacity(n_cart(l))`, or
\* the triples the loops push.
cartesian_components(l) ==
  IF overflow_checks /\ n_cart(u32(l)).overflow # "none"
    THEN [kind |-> "panic", value |-> <<>>]
    ELSE [kind |-> "ok", value |-> cc_loop(l, l, FirstLy(l, l), <<>>)]

\* The same loops one iteration at a time.
CcLocalsIdle ==
  /\ cc_pc = "idle" /\ cc_l = 0 /\ cc_lx = 0 /\ cc_ly = 0 /\ cc_result = <<>>

CcIdle == CcLocalsIdle /\ overflow_checks = FALSE

\* The calls tried: every l up to MaxL in both builds, and WideL in the
\* build that checks overflow.
CartCalls == ((0..MaxL) \X BOOLEAN) \cup {<<WideL, TRUE>>}

CcInit ==
  /\ \E c \in CartCalls : cc_l = c[1] /\ overflow_checks = c[2]
  /\ cc_lx = 0
  /\ cc_ly = 0
  /\ cc_result = <<>>
  /\ cc_pc = "alloc"

\* `Vec::with_capacity(n_cart(l))`, `let mut lx = l`, and the first
\* `let mut ly = l - lx`.
CcAlloc ==
  /\ cc_pc = "alloc"
  /\ IF overflow_checks /\ n_cart(u32(cc_l)).overflow # "none"
       THEN cc_pc' = "panic" /\ UNCHANGED <<cc_lx, cc_ly>>
       ELSE /\ cc_pc' = "inner"
            /\ cc_lx' = cc_l
            /\ cc_ly' = FirstLy(cc_l, cc_l)
  /\ UNCHANGED <<cc_l, cc_result, overflow_checks>>

\* One pass of the inner loop body: push, then break or decrement ly.
CcInner ==
  /\ cc_pc = "inner"
  /\ cc_result' = Append(cc_result, Triple(cc_l, cc_lx, cc_ly))
  /\ IF InnerBreak(cc_ly)
       THEN cc_pc' = "outer" /\ cc_ly' = cc_ly
       ELSE cc_pc' = "inner" /\ cc_ly' = cc_ly - 1
  /\ UNCHANGED <<cc_l, cc_lx, overflow_checks>>

\* The tail of the outer loop body: break or decrement lx and restart ly.
CcOuter ==
  /\ cc_pc = "outer"
  /\ IF OuterBreak(cc_lx)
       THEN cc_pc' = "done" /\ UNCHANGED <<cc_lx, cc_ly>>
       ELSE /\ cc_pc' = "inner"
            /\ cc_lx' = cc_lx - 1
            /\ cc_ly' = FirstLy(cc_l, cc_lx - 1)
  /\ UNCHANGED <<cc_l, cc_result, overflow_checks>>

(***************************************************************************)
(* orbital.rs: init_basis and init_basis_impl                              *)
(***************************************************************************)
\* Faulty variant of load_fn: the error is wrapped without the element.
load_fn_anonymous(lb, element) ==
  IF lb[element].ok
    THEN [ok |-> TRUE, value |-> lb[element].value]
    ELSE [ok |-> FALSE,
          error |-> [variant |-> "BasisLoad", element |-> "",
                     source |-> lb[element].error]]

\* The closure init_basis passes as load_fn: load_basis(element, basis_name)
\* with its error wrapped as InitError::BasisLoad { element, source }.
load_fn(lb, element) ==
  IF lb[element].ok
    THEN [ok |-> TRUE, value |-> lb[element].value]
    ELSE [ok |-> FALSE,
          error |-> [variant |-> "BasisLoad", element |-> element,
                     source |-> lb[element].error]]

\* Faulty variant of needs_load: the cache is never consulted.
needs_load_always(eb, symbol) == TRUE

\* `!element_basis.contains_key(symbol)`
needs_load(eb, symbol) == symbol \notin DOMAIN eb

\* Faulty variant of EmptyAo: the shell counter starts at 1.
EmptyAoOneShell ==
  [n_basis |-> 0, n_shells |-> 1,
   center_x |-> <<>>, center_y |-> <<>>, center_z |-> <<>>,
   lx |-> <<>>, ly |-> <<>>, lz |-> <<>>,
   shell_index |-> <<>>, atom_index |-> <<>>,
   prim_offset |-> <<>>, n_primitives |-> <<>>,
   exponents |-> <<>>, coefficients |-> <<>>]

\* The accumulators as declared before the second loop (all empty, counts 0).
EmptyAo ==
  [n_basis |-> 0, n_shells |-> 0,
   center_x |-> <<>>, center_y |-> <<>>, center_z |-> <<>>,
   lx |-> <<>>, ly |-> <<>>, lz |-> <<>>,
   shell_index |-> <<>>, atom_index |-> <<>>,
   prim_offset |-> <<>>, n_primitives |-> <<>>,
   exponents |-> <<>>, coefficients |-> <<>>]

\* Faulty variant of AtomCenter: always the first atom's position.
AtomCenterFirst(g, a) == <<g.x[1], g.y[1], g.z[1]>>

\* cx, cy, cz of the atom at enumerate() index a.
AtomCenter(g, a) == <<g.x[a + 1], g.y[a + 1], g.z[a + 1]>>

\* Faulty variant of OwnerAtom: the index of the first atom that carries
\* the same symbol (an owner found by symbol instead of by position).
OwnerAtomBySymbol(g, a) ==
  (CHOOSE p \in 1..Len(g.symbols) :
     /\ g.symbols[p] = g.symbols[a + 1]
     /\ \A q \in 1..(p - 1) : g.symbols[q] # g.symbols[a + 1]) - 1

\* The value pushed to atom_index_vec for the atom at enumerate() index a.
OwnerAtom(g, a) == a

\* Faulty variant of NextPrimOffset: the offset counts shells, not primitives.
NextPrimOffsetByOne(off, n_prim) == off + 1

\* `prim_offset += n_prim`
NextPrimOffset(off, n_prim) == off + n_prim

\* Faulty variant of extend_from_slice: the vector is replaced by the slice.
extend_replacing(v, slice) == slice

\* Vec::extend_from_slice: the slice is appended to the vector.
extend_from_slice(v, slice) == v \o slice

\* k copies of v
Repeat(v, k) == [j \in 1..k |-> v]

\* One pass of `for shell in &bs.shells`: the per-shell entries, the
\* primitives, and one basis-function record per Cartesian component.
EmitShell(acc, off, g, a, shell) ==
  LET shell_idx == acc.n_shells
      n_prim == Len(shell.exponents)
      comps == cartesian_components(shell.angular_momentum).value
      k == Len(comps)
      c == AtomCenter(g, a)
  IN [acc EXCEPT
        !.n_shells = @ + 1,
        !.prim_offset = Append(@, off),
        !.n_primitives = Append(@, n_prim),
        !.exponents = extend_from_slice(@, shell.exponents),
        !.coefficients = extend_from_slice(@, shell.coefficients),
        !.center_x = @ \o Repeat(c[1], k),
        !.center_y = @ \o Repeat(c[2], k),
        !.center_z = @ \o Repeat(c[3], k),
        !.lx = @ \o [j \in 1..k |-> comps[j][1]],
        !.ly = @ \o [j \in 1..k |-> comps[j][2]],
        !.lz = @ \o [j \in 1..k |-> comps[j][3]],
        !.shell_index = @ \o Repeat(shell_idx, k),
        !.atom_index = @ \o Repeat(OwnerAtom(g, a), k),
        !.n_basis = @ + k]

\* The pushes of one pass of `for shell in &bs.shells` that precede the call
\* of cartesian_components.
EmitShellHead(acc, off, shell) ==
  [acc EXCEPT
     !.n_shells = @ + 1,
     !.prim_offset = Append(@, off),
     !.n_primitives = Append(@, Len(shell.exponents)),
     !.exponents = extend_from_slice(@, shell.exponents),
     !.coefficients = extend_from_slice(@, shell.coefficients)]

BasisIdle ==
  /\ geometry = [symbols |-> <<>>, x |-> <<>>, y |-> <<>>, z |-> <<>>]
  /\ load_basis = <<>>
  /\ pc = "idle" /\ sym_i = 0 /\ element_basis = <<>> /\ load_calls = <<>>
  /\ atom_idx = 0 /\ shell_i = 0 /\ prim_offset = 0 /\ ao = EmptyAo
  /\ emitted = FALSE /\ result = [kind |-> "none"]

\* init_basis(geometry, basis_name) has been called; nothing has run yet.
BasisInit ==
  /\ overflow_checks \in BOOLEAN
  /\ geometry \in Geometries
  /\ load_basis \in { f \in [Symbols -> UNION { LoadOutcomes(e) : e \in Symbols }] :
                        \A e \in Symbols : f[e] \in LoadOutcomes(e) }
  /\ pc = "load" /\ sym_i = 0 /\ element_basis = <<>> /\ load_calls = <<>>
  /\ atom_idx = 0 /\ shell_i = 0 /\ prim_offset = 0 /\ ao = EmptyAo
  /\ emitted = FALSE /\ result = [kind |-> "none"]

\* Faulty variant of LoadSymbol: a failed lookup is taken as a basis set
\* without shells and the loop goes on.
LoadSymbolIgnoresFailure ==
  /\ pc = "load"
  /\ sym_i < Len(geometry.symbols)
  /\ LET symbol == geometry.symbols[sym_i + 1] IN
       IF needs_load(element_basis, symbol)
         THEN LET r == load_fn(load_basis, symbol) IN
              /\ load_calls' = Append(load_calls, symbol)
              /\ element_basis' =
                   (symbol :> (IF r.ok THEN r.value ELSE BasisSet(symbol, 0, <<>>)))
                     @@ element_basis
         ELSE UNCHANGED <<load_calls, element_basis>>
  /\ sym_i' = sym_i + 1
  /\ UNCHANGED <<geometry, load_basis, pc, result, atom_idx, shell_i,
                 prim_offset, ao, emitted>>

\* One pass of `for symbol in &geometry.symbols`: a cached symbol is skipped,
\* a new one is looked up; `?` returns the lookup's error at once.
LoadSymbol ==
  /\ pc = "load"
  /\ sym_i < Len(geometry.symbols)
  /\ LET symbol == geometry.symbols[sym_i + 1] IN
       IF needs_load(element_basis, symbol)
         THEN LET r == load_fn(load_basis, symbol) IN
              /\ load_calls' = Append(load_calls, symbol)
              /\ IF r.ok
                   THEN /\ element_basis' = (symbol :> r.value) @@ element_basis
                        /\ sym_i' = sym_i + 1
                        /\ UNCHANGED <<pc, result>>
                   ELSE /\ result' = [kind |-> "Err", error |-> r.error]
                        /\ pc' = "done"
                        /\ UNCHANGED <<element_basis, sym_i>>
         ELSE /\ sym_i' = sym_i + 1
              /\ UNCHANGED <<load_calls, element_basis, pc, result>>
  /\ UNCHANGED <<geometry, load_basis, atom_idx, shell_i, prim_offset, ao, emitted>>

\* The first loop is exhausted: declare the accumulators, enter the second.
BeginEmit ==
  /\ pc = "load"
  /\ sym_i = Len(geometry.symbols)
  /\ pc' = "emit"
  /\ ao' = EmptyAo
  /\ prim_offset' = 0
  /\ atom_idx' = 0
  /\ shell_i' = 0
  /\ UNCHANGED <<geometry, load_basis, sym_i, element_basis, load_calls,
                 emitted, result>>

\* Faulty variant of EmitShellStep: the shell index restarts with each atom.
EmitShellStepIndexPerAtom ==
  /\ pc = "emit"
  /\ atom_idx < Len(geometry.symbols)
  /\ LET bs == element_basis[geometry.symbols[atom_idx + 1]] IN
       /\ shell_i < Len(bs.shells)
       /\ LET shell == bs.shells[shell_i + 1] IN
            IF cartesian_components(shell.angular_momentum).kind = "panic"
              THEN /\ ao' = EmitShellHead(ao, prim_offset, shell)
                   /\ result' = [kind |-> "Panic"]
                   /\ pc' = "done"
              ELSE /\ ao' = [EmitShell(ao, prim_offset, geometry, atom_idx, shell)
                               EXCEPT !.shell_index =
                                 ao.shell_index
                                   \o Repeat(shell_i,
                                             n_cart(u32(shell.angular_momentum)).value)]
                   /\ UNCHANGED <<pc, result>>
       /\ prim_offset' = NextPrimOffset(prim_offset,
                                        Len(bs.shells[shell_i + 1].exponents))
  /\ shell_i' = shell_i + 1
  /\ emitted' = TRUE
  /\ UNCHANGED <<geometry, load_basis, sym_i, element_basis, load_calls, atom_idx>>

\* One pass of `for shell in &bs.shells` for the current atom, or the panic
\* of cartesian_components in it.
EmitShellStep ==
  /\ pc = "emit"
  /\ atom_idx < Len(geometry.symbols)
  /\ LET bs == element_basis[geometry.symbols[atom_idx + 1]] IN
       /\ shell_i < Len(bs.shells)
       /\ LET shell == bs.shells[shell_i + 1] IN
            IF cartesian_components(shell.angular_momentum).kind = "panic"
              THEN /\ ao' = EmitShellHead(ao, prim_offset, shell)
                   /\ result' = [kind |-> "Panic"]
                   /\ pc' = "done"
              ELSE /\ ao' = EmitShell(ao, prim_offset, geometry, atom_idx, shell)
                   /\ UNCHANGED <<pc, result>>
       /\ prim_offset' = NextPrimOffset(prim_offset,
                                        Len(bs.shells[shell_i + 1].exponents))
  /\ shell_i' = shell_i + 1
  /\ emitted' = TRUE
  /\ UNCHANGED <<geometry, load_basis, sym_i, element_basis, load_calls, atom_idx>>

\* The atom's shells are exhausted: the outer loop moves to the next atom.
NextAtom ==
  /\ pc = "emit"
  /\ atom_idx < Len(geometry.symbols)
  /\ shell_i = Len(element_basis[geometry.symbols[atom_idx + 1]].shells)
  /\ atom_idx' = atom_idx + 1
  /\ shell_i' = 0
  /\ UNCHANGED <<geometry, load_basis, pc, sym_i, element_basis, load_calls,
                 prim_offset, ao, emitted, result>>

\* `Ok(AoBasis { .. })`
ReturnOk ==
  /\ pc = "emit"
  /\ atom_idx = Len(geometry.symbols)
  /\ result' = [kind |-> "Ok", value |-> ao]
  /\ pc' = "done"
  /\ UNCHANGED <<geometry, load_basis, sym_i, element_basis, load_calls,
                 atom_idx, shell_i, prim_offset, ao, emitted>>

(***************************************************************************)
(* guess.rs: guess_hcore                                                   *)
(*                                                                         *)
(* The matrices enter through their shapes; the two calls of faer's        *)
(* selfadjoint_eigendecomposition are steps of the environment that hand   *)
(* back n eigenvalues in an order of the library's choosing.  A column of  *)
(* a matrix is named by where it came from.                                *)
(***************************************************************************)
\* An f64 is a number or NaN.
Num(v) == [nan |-> FALSE, v |-> v]
NaN == [nan |-> TRUE, v |-> 0]

\* Eigenvalues the decomposition of S may report.
LambdaVals == {Num(-1), Num(0), Num(1), Num(4), NaN}

\* Eigenvalues the decomposition of H' may report.
EnergyVals == {Num(-2), Num(0), Num(3), NaN}

\* slice::sort_by sorts a slice of up to SmallSortLen elements by insertion.
SmallSortLen == 20

\* The side length of the one basis tried that is longer than that.
LongN == SmallSortLen + 1

Shapes == ((0..MaxN) \X (0..MaxN)) \cup {<<LongN, LongN>>}

\* The eigenvalues tried for the long basis: S well conditioned, or with one
\* zero eigenvalue.
LongLambdas ==
  { [k \in 1..LongN |-> Num(1)],
    [k \in 1..LongN |-> IF k = LongN THEN Num(0) ELSE Num(1)] }

\* The energies tried for the long basis: two mixes of NaN with distinct
\* numbers, distinct numbers only, and NaN with one number only.
LongEnergies ==
  { <<Num(3), Num(-2), Num(0), Num(-2), Num(-2), Num(0), NaN, Num(0), Num(3),
      Num(3), NaN, Num(3), NaN, Num(-2), Num(0), NaN, Num(3), Num(0), Num(-2),
      Num(3), Num(-2)>>,
    <<Num(0), NaN, Num(-2), Num(0), Num(0), Num(0), Num(0), Num(3), NaN,
      Num(-2), Num(0), NaN, NaN, Num(-2), Num(3), NaN, Num(0), Num(3), Num(-2),
      Num(-2), Num(-2)>>,
    [k \in 1..LongN |-> <<Num(3), Num(-2), Num(0)>>[(k % 3) + 1]],
    [k \in 1..LongN |-> IF k % 4 = 0 THEN NaN ELSE Num(0)] }

\* What the decomposition of S, resp. of H', may report for side length n:
\* n values; for the long basis the ones listed above.
EigenvaluesOfS(n) == IF n = LongN THEN LongLambdas ELSE [1..n -> LambdaVals]
EigenvaluesOfH(n) == IF n = LongN THEN LongEnergies ELSE [1..n -> EnergyVals]

\* Faulty variant of DimensionMismatch: V's side is never compared with S's.
DimensionMismatchSkipsV(ss, ts, vs) ==
  \/ ss[1] # ss[2]
  \/ ts[1] # ts[2]
  \/ vs[1] # vs[2]
  \/ ts[1] # ss[1]

\* The dimension check: all three square, T and V of S's side length.
DimensionMismatch(ss, ts, vs) ==
  \/ ss[1] # ss[2]
  \/ ts[1] # ts[2]
  \/ vs[1] # vs[2]
  \/ ts[1] # ss[1]
  \/ vs[1] # ss[1]

\* Faulty variant of TooManyElectrons: a fully occupied basis is refused.
TooManyElectronsAtN(na, nb, n) == na >= n \/ nb >= n

\* `n_alpha > n || n_beta > n`
TooManyElectrons(na, nb, n) == na > n \/ nb > n

\* Faulty variant of NonPositive: an eigenvalue of exactly zero passes.
NonPositiveBelowZero(l) == ~l.nan /\ l.v < 0

\* `l <= 0.0` on f64: false when l is NaN.
NonPositive(l) == ~l.nan /\ l.v <= 0

\* f64::partial_cmp
partial_cmp(a, b) ==
  IF a.nan \/ b.nan THEN "None"
  ELSE IF a.v < b.v THEN "Less"
  ELSE IF a.v > b.v THEN "Greater"
  ELSE "Equal"

\* Faulty variant of compare: the operands are exchanged (descending sort).
compare_descending(en, a, b) ==
  LET c == partial_cmp(en[b + 1], en[a + 1]) IN
  IF c = "None" THEN "Equal" ELSE c

\* The comparator of sort_by: energies[a].partial_cmp(&energies[b])
\* .unwrap_or(Ordering::Equal), a and b being 0-based indices.
compare(en, a, b) ==
  LET c == partial_cmp(en[a + 1], en[b + 1]) IN
  IF c = "None" THEN "Equal" ELSE c

\* The stable insertion sort: each element in turn moves left past every
\* neighbour it compares Less than.
\* Faulty variant of insert_tail: the element also moves past its equals.
RECURSIVE insert_tail_past_equal(_, _, _)
insert_tail_past_equal(en, sorted, e) ==
  IF sorted # <<>> /\ compare(en, e, sorted[Len(sorted)]) # "Greater"
    THEN Append(insert_tail_past_equal(en, SubSeq(sorted, 1, Len(sorted) - 1), e),
                sorted[Len(sorted)])
    ELSE Append(sorted, e)

RECURSIVE insert_tail(_, _, _)
insert_tail(en, sorted, e) ==
  IF sorted # <<>> /\ compare(en, e, sorted[Len(sorted)]) = "Less"
    THEN Append(insert_tail(en, SubSeq(sorted, 1, Len(sorted) - 1), e),
                sorted[Len(sorted)])
    ELSE Append(sorted, e)

RECURSIVE sort_prefix(_, _, _)
sort_prefix(en, v, k) ==
  IF k = 0 THEN <<>>
  ELSE insert_tail(en, sort_prefix(en, v, k - 1), v[k])

\* (0..n).collect() sorted by insertion: the stable order of the indices.
sort_order(en) ==
  LET n == Len(en)
      v == [k \in 1..n |-> k - 1]
  IN sort_prefix(en, v, n)

\* The comparator is a total order on the energies: there is no NaN, which
\* compares Equal to everything, or the other energies are all the same.
TotalOrder(en) ==
  \/ \A i \in 1..Len(en) : ~en[i].nan
  \/ \A i, j \in 1..Len(en) : (~en[i].nan /\ ~en[j].nan) => en[i].v = en[j].v

\* The indices 0..n-1 in an order that the contract of sort_by leaves open:
\* -1 stands at each place for the index found there.
Unspecified(n) == [k \in 1..n |-> -1]

\* `let mut order: Vec<usize> = (0..n).collect(); order.sort_by(..)`: the
\* outcomes.  A slice of up to SmallSortLen elements is sorted by insertion,
\* and a longer one comes back in the same, stable, order when the
\* comparator is a total order.  When it is not, the sort of a longer slice
\* panics or returns the indices in an unspecified order.
sort_by(en) ==
  IF Len(en) <= SmallSortLen \/ TotalOrder(en)
    THEN { [kind |-> "sorted", order |-> sort_order(en)] }
    ELSE { [kind |-> "panic", order |-> <<>>],
           [kind |-> "unspecified", order |-> Unspecified(Len(en))] }

\* Column j of X: eigenvector j of S scaled by lambdas_s[j]^(-1/2).
build_x(ls) ==
  [j \in 1..Len(ls) |-> [u_s_col |-> j - 1, scaled_by |-> ls[j]]]

\* U' with its columns reordered: new column new_j is old column order[new_j].
u_sorted(ord) == [new_j \in 1..Len(ord) |-> ord[new_j]]

GuessIdle ==
  /\ g_pc = "idle"
  /\ s_shape = <<0, 0>> /\ t_shape = <<0, 0>> /\ v_shape = <<0, 0>>
  /\ n_alpha = 0 /\ n_beta = 0
  /\ g_events = <<>> /\ lambdas_s = <<>> /\ x_cols = <<>>
  /\ energies = <<>> /\ order = <<>>
  /\ g_result = [kind |-> "none"]

GuessInit ==
  /\ g_pc = "dimension"
  /\ s_shape \in Shapes /\ t_shape \in Shapes /\ v_shape \in Shapes
  /\ n_alpha \in 0..(MaxN + 1) /\ n_beta \in 0..(MaxN + 1)
  /\ g_events = <<>> /\ lambdas_s = <<>> /\ x_cols = <<>>
  /\ energies = <<>> /\ order = <<>>
  /\ g_result = [kind |-> "none"]

\* `let n = s.nrows();`
n_of == s_shape[1]

\* Faulty variant of CheckDimension: the electron counts are looked at before
\* the shapes.
CheckDimensionAfterElectrons ==
  /\ g_pc = "dimension"
  /\ IF TooManyElectrons(n_alpha, n_beta, n_of)
       THEN /\ g_result' = [kind |-> "Err", error |->
                              [variant |-> "TooManyElectrons", n_alpha |-> n_alpha,
                               n_beta |-> n_beta, n_basis |-> n_of]]
            /\ g_pc' = "done"
       ELSE IF DimensionMismatch(s_shape, t_shape, v_shape)
       THEN /\ g_result' = [kind |-> "Err", error |->
                              [variant |-> "DimensionMismatch", s_shape |-> s_shape,
                               t_shape |-> t_shape, v_shape |-> v_shape]]
            /\ g_pc' = "done"
       ELSE /\ g_pc' = "electrons"
            /\ UNCHANGED g_result
  /\ UNCHANGED <<s_shape, t_shape, v_shape, n_alpha, n_beta, g_events,
                 lambdas_s, x_cols, energies, order>>

\* Dimension check.
CheckDimension ==
  /\ g_pc = "dimension"
  /\ IF DimensionMismatch(s_shape, t_shape, v_shape)
       THEN /\ g_result' = [kind |-> "Err", error |->
                              [variant |-> "DimensionMismatch", s_shape |-> s_shape,
                               t_shape |-> t_shape, v_shape |-> v_shape]]
            /\ g_pc' = "done"
       ELSE /\ g_pc' = "electrons"
            /\ UNCHANGED g_result
  /\ UNCHANGED <<s_shape, t_shape, v_shape, n_alpha, n_beta, g_events,
                 lambdas_s, x_cols, energies, order>>

\* Faulty variant of CheckElectrons: the n = 0 short-circuit comes first.
CheckElectronsAfterDegenerate ==
  /\ g_pc = "electrons"
  /\ IF n_of = 0
       THEN /\ g_result' = [kind |-> "Ok", nrows |-> 0, ncols |-> 0, cols |-> <<>>]
            /\ g_pc' = "done"
       ELSE IF TooManyElectrons(n_alpha, n_beta, n_of)
       THEN /\ g_result' = [kind |-> "Err", error |->
                              [variant |-> "TooManyElectrons", n_alpha |-> n_alpha,
                               n_beta |-> n_beta, n_basis |-> n_of]]
            /\ g_pc' = "done"
       ELSE /\ g_pc' = "degenerate"
            /\ UNCHANGED g_result
  /\ UNCHANGED <<s_shape, t_shape, v_shape, n_alpha, n_beta, g_events,
                 lambdas_s, x_cols, energies, order>>

\* Electron count check.
CheckElectrons ==
  /\ g_pc = "electrons"
  /\ IF TooManyElectrons(n_alpha, n_beta, n_of)
       THEN /\ g_result' = [kind |-> "Err", error |->
                              [variant |-> "TooManyElectrons", n_alpha |-> n_alpha,
                               n_beta |-> n_beta, n_basis |-> n_of]]
            /\ g_pc' = "done"
       ELSE /\ g_pc' = "degenerate"
            /\ UNCHANGED g_result
  /\ UNCHANGED <<s_shape, t_shape, v_shape, n_alpha, n_beta, g_events,
                 lambdas_s, x_cols, energies, order>>

\* Faulty variant of CheckDegenerate: no short-circuit for n = 0.
CheckDegenerateFallsThrough ==
  /\ g_pc = "degenerate"
  /\ g_pc' = "h_core"
  /\ UNCHANGED <<s_shape, t_shape, v_shape, n_alpha, n_beta, g_events,
                 lambdas_s, x_cols, energies, order, g_result>>

\* `if n == 0 { return Ok(Mat::zeros(0, 0)); }`
CheckDegenerate ==
  /\ g_pc = "degenerate"
  /\ IF n_of = 0
       THEN /\ g_result' = [kind |-> "Ok", nrows |-> 0, ncols |-> 0, cols |-> <<>>]
            /\ g_pc' = "done"
       ELSE /\ g_pc' = "h_core"
            /\ UNCHANGED g_result
  /\ UNCHANGED <<s_shape, t_shape, v_shape, n_alpha, n_beta, g_events,
                 lambdas_s, x_cols, energies, order>>

\* `let h_core: Mat<f64> = t + v;`
FormHCore ==
  /\ g_pc = "h_core"
  /\ g_events' = Append(g_events, "h_core")
  /\ g_pc' = "evd_s"
  /\ UNCHANGED <<s_shape, t_shape, v_shape, n_alpha, n_beta,
                 lambdas_s, x_cols, energies, order, g_result>>

\* `s.selfadjoint_eigendecomposition(Side::Lower)` and the read of its values.
DecomposeS ==
  /\ g_pc = "evd_s"
  /\ lambdas_s' \in EigenvaluesOfS(n_of)
  /\ g_events' = Append(g_events, "evd_s")
  /\ g_pc' = "positive"
  /\ UNCHANGED <<s_shape, t_shape, v_shape, n_alpha, n_beta,
                 x_cols, energies, order, g_result>>

\* Faulty variant of CheckPositive: the eigenvalues are looked at only
\* after X and H' have been formed.
CheckPositiveAfterTransform ==
  /\ g_pc = "positive"
  /\ IF \E j \in 1..Len(lambdas_s) : NonPositive(lambdas_s[j])
       THEN /\ g_events' = g_events \o <<"x", "h_prime">>
            /\ g_result' = [kind |-> "Err", error |-> [variant |-> "SingularOverlap"]]
            /\ g_pc' = "done"
       ELSE /\ g_pc' = "build_x"
            /\ UNCHANGED <<g_result, g_events>>
  /\ UNCHANGED <<s_shape, t_shape, v_shape, n_alpha, n_beta,
                 lambdas_s, x_cols, energies, order>>

\* `if lambdas_s.iter().any(|&l| l <= 0.0) { return Err(SingularOverlap); }`
CheckPositive ==
  /\ g_pc = "positive"
  /\ IF \E j \in 1..Len(lambdas_s) : NonPositive(lambdas_s[j])
       THEN /\ g_result' = [kind |-> "Err", error |-> [variant |-> "SingularOverlap"]]
            /\ g_pc' = "done"
       ELSE /\ g_pc' = "build_x"
            /\ UNCHANGED g_result
  /\ UNCHANGED <<s_shape, t_shape, v_shape, n_alpha, n_beta, g_events,
                 lambdas_s, x_cols, energies, order>>

\* The orthogonaliser X and H' = X^T H_core X.
BuildX ==
  /\ g_pc = "build_x"
  /\ x_cols' = build_x(lambdas_s)
  /\ g_events' = g_events \o <<"x", "h_prime">>
  /\ g_pc' = "evd_h"
  /\ UNCHANGED <<s_shape, t_shape, v_shape, n_alpha, n_beta,
                 lambdas_s, energies, order, g_result>>

\* `h_prime.selfadjoint_eigendecomposition(Side::Lower)` and the read of
\* its values.
DecomposeH ==
  /\ g_pc = "evd_h"
  /\ energies' \in EigenvaluesOfH(n_of)
  /\ g_events' = Append(g_events, "evd_h")
  /\ g_pc' = "sort"
  /\ UNCHANGED <<s_shape, t_shape, v_shape, n_alpha, n_beta,
                 lambdas_s, x_cols, order, g_result>>

\* The index sort, U'_sorted and `Ok(&x * &u_sorted)`: column new_j of C is
\* X times column order[new_j] of U'; or the panic of the sort.
SortAndReturn ==
  /\ g_pc = "sort"
  /\ \E o \in sort_by(energies) :
       /\ order' = o.order
       /\ g_result' = IF o.kind = "panic" THEN [kind |-> "Panic"]
                      ELSE [kind |-> "Ok", nrows |-> n_of, ncols |-> n_of,
                            cols |-> u_sorted(o.order)]
  /\ g_pc' = "done"
  /\ UNCHANGED <<s_shape, t_shape, v_shape, n_alpha, n_beta, g_events,
                 lambdas_s, x_cols, energies>>

(***************************************************************************)
(* basis.rs: fetch_basis_impl                                              *)
(*                                                                         *)
(* Strings are sequences of one-character strings, so that the case        *)
(* conversions act on them character by character.  A text (a file's       *)
(* content or a response body) is a record: its name `id`, whether it is   *)
(* empty, whether serde_json parses it, and what its top-level "elements"  *)
(* member is.  The server and the disk are the environment.                *)
(***************************************************************************)
UpperCase ==
  <<"A", "B", "C", "D", "E", "F", "G", "H", "I", "J", "K", "L", "M",
    "N", "O", "P", "Q", "R", "S", "T", "U", "V", "W", "X", "Y", "Z">>

LowerCase ==
  <<"a", "b", "c", "d", "e", "f", "g", "h", "i", "j", "k", "l", "m",
    "n", "o", "p", "q", "r", "s", "t", "u", "v", "w", "x", "y", "z">>

\* ASCII characters without case: the digits, the space and the
\* punctuation of basis set names.
AsciiCaseless ==
  { "0", "1", "2", "3", "4", "5", "6", "7", "8", "9",
    " ", "+", "-", ".", "_" }

\* A character outside ASCII is named by its code point.  The marks and
\* modifier letters that the case mappings below produce have no case.
Marks == { "U+02BC", "U+02BE", "U+0307", "U+0308", "U+030A", "U+030C", "U+0331" }

\* The characters outside ASCII whose upper case is or holds an ASCII
\* letter: long s, dotless i, sharp s, the ligatures ff fi fl ffi ffl
\* long-s-t st, n preceded by apostrophe, j with caron, h with line below,
\* t with diaeresis, w and y with ring above, a with right half ring.  All
\* are lower case.
UpperToAscii ==
  { "U+017F", "U+0131", "U+00DF", "U+FB00", "U+FB01", "U+FB02", "U+FB03",
    "U+FB04", "U+FB05", "U+FB06", "U+0149", "U+01F0", "U+1E96", "U+1E97",
    "U+1E98", "U+1E99", "U+1E9A" }

\* The characters outside ASCII whose lower case is or holds an ASCII
\* letter: the Kelvin sign and I with dot above.  Both are upper case.
LowerToAscii == { "U+212A", "U+0130" }

\* The characters of the model; the case mappings below are those of
\* Unicode on them, and have no value on any other character.
Chars ==
  { UpperCase[i] : i \in 1..Len(UpperCase) } \cup { LowerCase[i] : i \in 1..Len(LowerCase) }
    \cup AsciiCaseless \cup Marks \cup UpperToAscii \cup LowerToAscii

\* char::to_lowercase: the characters c maps to
LowerChar(c) ==
  CASE c = "U+212A" -> <<"k">>
    [] c = "U+0130" -> <<"i", "U+0307">>
    [] \E i \in 1..Len(UpperCase) : UpperCase[i] = c ->
         <<LowerCase[CHOOSE i \in 1..Len(UpperCase) : UpperCase[i] = c]>>
    [] c \in Chars \ (LowerToAscii \cup { UpperCase[i] : i \in 1..Len(UpperCase) }) ->
         <<c>>

\* char::to_uppercase: the characters c maps to
UpperChar(c) ==
  CASE c = "U+017F" -> <<"S">>
    [] c = "U+0131" -> <<"I">>
    [] c = "U+00DF" -> <<"S", "S">>
    [] c = "U+FB00" -> <<"F", "F">>
    [] c = "U+FB01" -> <<"F", "I">>
    [] c = "U+FB02" -> <<"F", "L">>
    [] c = "U+FB03" -> <<"F", "F", "I">>
    [] c = "U+FB04" -> <<"F", "F", "L">>
    [] c = "U+FB05" -> <<"S", "T">>
    [] c = "U+FB06" -> <<"S", "T">>
    [] c = "U+0149" -> <<"U+02BC", "N">>
    [] c = "U+01F0" -> <<"J", "U+030C">>
    [] c = "U+1E96" -> <<"H", "U+0331">>
    [] c = "U+1E97" -> <<"T", "U+0308">>
    [] c = "U+1E98" -> <<"W", "U+030A">>
    [] c = "U+1E99" -> <<"Y", "U+030A">>
    [] c = "U+1E9A" -> <<"A", "U+02BE">>
    [] \E i \in 1..Len(LowerCase) : LowerCase[i] = c ->
         <<UpperCase[CHOOSE i \in 1..Len(LowerCase) : LowerCase[i] = c]>>
    [] c \in Chars \ (UpperToAscii \cup { LowerCase[i] : i \in 1..Len(LowerCase) }) ->
         <<c>>

\* The strings of a sequence joined.
RECURSIVE Concat(_)
Concat(strs) == IF strs = <<>> THEN <<>> ELSE Head(strs) \o Concat(Tail(strs))

\* Faulty variant of to_lowercase: the string is left as it is.
to_lowercase_verbatim(str) == str

\* str::to_lowercase: the lower case of each character in turn (the model
\* has no capital sigma, the one character it maps by its position).
to_lowercase(str) == Concat([i \in 1..Len(str) |-> LowerChar(str[i])])

\* The 118 element symbols, indexed by atomic number.
ELEMENTS ==
  <<<<"H">>, <<"H", "e">>, <<"L", "i">>, <<"B", "e">>, <<"B">>,
     <<"C">>, <<"N">>, <<"O">>, <<"F">>, <<"N", "e">>,
     <<"N", "a">>, <<"M", "g">>, <<"A", "l">>, <<"S", "i">>, <<"P">>,
     <<"S">>, <<"C", "l">>, <<"A", "r">>, <<"K">>, <<"C", "a">>,
     <<"S", "c">>, <<"T", "i">>, <<"V">>, <<"C", "r">>, <<"M", "n">>,
     <<"F", "e">>, <<"C", "o">>, <<"N", "i">>, <<"C", "u">>, <<"Z", "n">>,
     <<"G", "a">>, <<"G", "e">>, <<"A", "s">>, <<"S", "e">>, <<"B", "r">>,
     <<"K", "r">>, <<"R", "b">>, <<"S", "r">>, <<"Y">>, <<"Z", "r">>,
     <<"N", "b">>, <<"M", "o">>, <<"T", "c">>, <<"R", "u">>, <<"R", "h">>,
     <<"P", "d">>, <<"A", "g">>, <<"C", "d">>, <<"I", "n">>, <<"S", "n">>,
     <<"S", "b">>, <<"T", "e">>, <<"I">>, <<"X", "e">>, <<"C", "s">>,
     <<"B", "a">>, <<"L", "a">>, <<"C", "e">>, <<"P", "r">>, <<"N", "d">>,
     <<"P", "m">>, <<"S", "m">>, <<"E", "u">>, <<"G", "d">>, <<"T", "b">>,
     <<"D", "y">>, <<"H", "o">>, <<"E", "r">>, <<"T", "m">>, <<"Y", "b">>,
     <<"L", "u">>, <<"H", "f">>, <<"T", "a">>, <<"W">>, <<"R", "e">>,
     <<"O", "s">>, <<"I", "r">>, <<"P", "t">>, <<"A", "u">>, <<"H", "g">>,
     <<"T", "l">>, <<"P", "b">>, <<"B", "i">>, <<"P", "o">>, <<"A", "t">>,
     <<"R", "n">>, <<"F", "r">>, <<"R", "a">>, <<"A", "c">>, <<"T", "h">>,
     <<"P", "a">>, <<"U">>, <<"N", "p">>, <<"P", "u">>, <<"A", "m">>,
     <<"C", "m">>, <<"B", "k">>, <<"C", "f">>, <<"E", "s">>, <<"F", "m">>,
     <<"M", "d">>, <<"N", "o">>, <<"L", "r">>, <<"R", "f">>, <<"D", "b">>,
     <<"S", "g">>, <<"B", "h">>, <<"H", "s">>, <<"M", "t">>, <<"D", "s">>,
     <<"R", "g">>, <<"C", "n">>, <<"N", "h">>, <<"F", "l">>, <<"M", "c">>,
     <<"L", "v">>, <<"T", "s">>, <<"O", "g">>>>

\* Title case: first character upper, the rest lower.
TitleCase(element) ==
  IF element = <<>> THEN <<>>
  ELSE UpperChar(Head(element)) \o to_lowercase(Tail(element))

\* normalize_element: the title-cased symbol if it is an element, else
\* InvalidElement carrying the argument as given.
normalize_element(element) ==
  IF \E z \in 1..Len(ELEMENTS) : ELEMENTS[z] = TitleCase(element)
    THEN [ok |-> TRUE, value |-> TitleCase(element)]
    ELSE [ok |-> FALSE, value |-> element]

\* cache_root / basis_norm / "<element_norm>.json"
CachePath(basis_norm, element_norm) ==
  [dir |-> basis_norm, file |-> element_norm \o <<".", "j", "s", "o", "n">>]

\* "<base_url>/api/basis/<basis_norm>/format/qcschema?elements=<element_norm>"
Url(basis_norm, element_norm) == [basis |-> basis_norm, elements |-> element_norm]

NoPath == [dir |-> <<>>, file |-> <<>>]

\* A text: which one it is, whether it is a proper prefix of that one
\* (`cut`), and what the code looks at: whether it is empty, whether it
\* parses as JSON, and the kind of its `elements` field.
Text(id, is_empty, is_json, elements) ==
  [id |-> id, cut |-> FALSE, is_empty |-> is_empty, is_json |-> is_json,
   elements |-> elements]

\* A non-empty proper prefix of a JSON text: it stops inside the value and
\* does not parse, or (whole = TRUE) it lacks only trailing white space and
\* parses to the same value.
Prefix(text, whole) ==
  [text EXCEPT !.cut = TRUE, !.is_json = whole,
               !.elements = IF whole THEN @ ELSE "none"]

EmptyText == Text("", TRUE, FALSE, "none")
GarbageText == Text("not json", FALSE, FALSE, "none")
CachedJson == Text("cached", FALSE, TRUE, "object")
NoElementsJson == Text("{}", FALSE, TRUE, "absent")
EmptyObjectJson == Text("elements: {}", FALSE, TRUE, "empty_object")
EmptyArrayJson == Text("elements: []", FALSE, TRUE, "empty_array")
ScalarElementsJson == Text("elements: 1", FALSE, TRUE, "other")
ServedJson == Text("served", FALSE, TRUE, "object")
NoShellsJson == Text("elements: {1: {}}", FALSE, TRUE, "object")

\* What a cache path holds: no file, or a file with a text.
NoFile == [exists |-> FALSE, text |-> EmptyText]
File(text) == [exists |-> TRUE, text |-> text]

\* The arguments tried: no element, helium in two spellings, a letter and
\* a ligature (its title case is "FI") that name no element.
ElementInputs ==
  { <<>>, <<"H", "e">>, <<"h", "E">>, <<"x">>, <<"U+FB01">> }

\* Silicon spelled with the letter s and with the long s.
SiliconInputs == { <<"s", "I">>, <<"U+017F", "I">> }

BasisNameInputs ==
  { <<>>, <<"s", "t", "o", "-", "3", "g">>, <<"S", "T", "O", "-", "3", "G">> }

\* The calls tried: every element of ElementInputs with the STO-3G
\* spellings and the empty name, and silicon with 6-31G.
CallInputs ==
  (ElementInputs \X BasisNameInputs)
    \cup (SiliconInputs \X { <<"6", "-", "3", "1", "G">> })

CachePaths ==
  { CachePath(to_lowercase(c[2]), normalize_element(c[1]).value) :
      c \in { c \in CallInputs : c[2] # <<>> /\ normalize_element(c[1]).ok } }

\* What the cache may hold before the first call.
InitialFiles ==
  { NoFile, File(EmptyText), File(GarbageText), File(CachedJson), File(EmptyObjectJson),
    File(NoShellsJson) }

\* What the server may answer: the request fails, a status other than 200,
\* a 200 whose body cannot be read, or a 200 with a body.
ResponseBodies ==
  { EmptyText, GarbageText, NoElementsJson, EmptyObjectJson, EmptyArrayJson,
    ScalarElementsJson, ServedJson, NoShellsJson }

Responses ==
  { [kind |-> "unreachable", status |-> 0, body |-> EmptyText],
    [kind |-> "status", status |-> 404, body |-> EmptyText],
    [kind |-> "status", status |-> 500, body |-> EmptyText],
    [kind |-> "unreadable_body", status |-> 200, body |-> EmptyText] }
  \cup { [kind |-> "status", status |-> 200, body |-> b] : b \in ResponseBodies }

\* Faulty variant of is_valid_cache: no cache is ever accepted.
is_valid_cache_never(files, path) == FALSE

\* is_valid_cache: the file can be read, is not empty and parses as JSON.
is_valid_cache(files, path) ==
  /\ files[path].exists
  /\ ~files[path].text.is_empty
  /\ files[path].text.is_json

\* elements_field_is_empty on a parsed body
elements_field_is_empty(json) ==
  CASE json.elements = "absent" -> TRUE
    [] json.elements = "empty_object" -> TRUE
    [] json.elements = "empty_array" -> TRUE
    [] OTHER -> FALSE

\* Faulty variant of fs_write: an existing file is left as it is.
fs_write_create_only(files, path, body) ==
  IF files[path].exists THEN files ELSE [files EXCEPT ![path] = File(body)]

\* std::fs::write: the file is created or replaced and holds `body`.
fs_write(files, path, body) == [files EXCEPT ![path] = File(body)]

FetchErr(variant, arg) ==
  [kind |-> "Err", error |-> [variant |-> variant, arg |-> arg]]

FetchIdle ==
  /\ f_pc = "idle" /\ f_element = <<>> /\ f_basis_name = <<>>
  /\ fs = <<>> /\ file_before = NoFile
  /\ f_path = NoPath /\ f_requests = <<>> /\ f_body = EmptyText
  /\ f_result = [kind |-> "none"]
  /\ f_first = <<>> /\ f_fresh = FALSE /\ l_result = [kind |-> "none"]

\* fetch_basis_impl(element, basis_name, ..) has been called on some cache.
FetchInit ==
  /\ f_pc = "validate"
  /\ \E c \in CallInputs : f_element = c[1] /\ f_basis_name = c[2]
  /\ fs \in [CachePaths -> InitialFiles]
  /\ file_before = NoFile
  /\ f_path = NoPath /\ f_requests = <<>> /\ f_body = EmptyText
  /\ f_result = [kind |-> "none"]
  /\ f_first = [p \in CachePaths |-> NoFile] /\ f_fresh = FALSE
  /\ l_result = [kind |-> "none"]

\* The argument checks and the cache path.
FetchValidate ==
  /\ f_pc = "validate"
  /\ IF f_basis_name = <<>>
       THEN /\ f_result' = FetchErr("InvalidBasisSetName", f_basis_name)
            /\ f_pc' = "done"
            /\ UNCHANGED <<f_path, file_before>>
       ELSE IF ~normalize_element(f_element).ok
       THEN /\ f_result' = FetchErr("InvalidElement", normalize_element(f_element).value)
            /\ f_pc' = "done"
            /\ UNCHANGED <<f_path, file_before>>
       ELSE /\ f_path' = CachePath(to_lowercase(f_basis_name),
                                   normalize_element(f_element).value)
            /\ file_before' = fs[f_path']
            /\ f_pc' = "cache"
            /\ UNCHANGED f_result
  /\ UNCHANGED <<f_element, f_basis_name, fs, f_requests, f_body, f_first, f_fresh,
                 l_result>>

\* `if is_valid_cache(&path) { return Ok(path); }`
FetchCheckCache ==
  /\ f_pc = "cache"
  /\ IF is_valid_cache(fs, f_path)
       THEN /\ f_result' = [kind |-> "Ok", path |-> f_path]
            /\ f_pc' = "done"
       ELSE /\ f_pc' = "get"
            /\ UNCHANGED f_result
  /\ UNCHANGED <<f_element, f_basis_name, fs, file_before, f_path, f_requests, f_body,
                 f_first, f_fresh, l_result>>

\* What the response leads to: an error, or the accepted body.
Answer(resp, basis_norm, element_norm) ==
  IF resp.kind = "unreachable"
    THEN FetchErr("NetworkError", <<"request">>)
  ELSE IF resp.status = 404
    THEN FetchErr("UnknownBasisSet", basis_norm)
  ELSE IF resp.status # 200
    THEN FetchErr("NetworkError", <<"unexpected HTTP status">>)
  ELSE IF resp.kind = "unreadable_body"
    THEN FetchErr("NetworkError", <<"body">>)
  ELSE IF ~resp.body.is_json
    THEN FetchErr("InvalidResponse", <<"json">>)
  ELSE IF elements_field_is_empty(resp.body)
    THEN FetchErr("ElementNotInBasisSet", <<element_norm, basis_norm>>)
  ELSE [kind |-> "Accepted", body |-> resp.body]

\* Faulty variant of FetchGet: a 200 body is stored before it is examined.
FetchGetStoresFirst ==
  /\ f_pc = "get"
  /\ f_requests' = Append(f_requests,
                          Url(f_path.dir, normalize_element(f_element).value))
  /\ \E resp \in Responses :
       LET a == Answer(resp, f_path.dir, normalize_element(f_element).value)
       IN /\ fs' = IF resp.kind = "status" /\ resp.status = 200
                     THEN fs_write(fs, f_path, resp.body) ELSE fs
          /\ IF a.kind = "Accepted"
               THEN /\ f_body' = a.body
                    /\ f_pc' = "write"
                    /\ UNCHANGED f_result
               ELSE /\ f_result' = a
                    /\ f_pc' = "done"
                    /\ UNCHANGED f_body
  /\ UNCHANGED <<f_element, f_basis_name, file_before, f_path, f_first, f_fresh,
                 l_result>>

\* The request, the status match, the body and its two checks.
FetchGet ==
  /\ f_pc = "get"
  /\ f_requests' = Append(f_requests,
                          Url(f_path.dir, normalize_element(f_element).value))
  /\ \E resp \in Responses :
       LET a == Answer(resp, f_path.dir, normalize_element(f_element).value)
       IN IF a.kind = "Accepted"
            THEN /\ f_body' = a.body
                 /\ f_pc' = "write"
                 /\ UNCHANGED f_result
            ELSE /\ f_result' = a
                 /\ f_pc' = "done"
                 /\ UNCHANGED f_body
  /\ UNCHANGED <<f_element, f_basis_name, fs, file_before, f_path, f_first, f_fresh,
                 l_result>>

\* What the disk may do with create_dir_all and write: both succeed, the
\* directory cannot be made, or the write fails: before the file is opened
\* (the file is as it was), after it was created or truncated (it is
\* empty), or after part of the body was written (it holds a prefix of the
\* body, cut inside the JSON value or in the white space after it).
DiskOutcomes ==
  { "written", "no_dir", "write_failed", "write_failed_truncated",
    "write_failed_partial", "write_failed_in_trailing_space" }

\* create_dir_all, fs::write, Ok(path)
FetchWrite ==
  /\ f_pc = "write"
  /\ \E d \in DiskOutcomes :
       /\ fs' = CASE d = "written" -> fs_write(fs, f_path, f_body)
                  [] d = "write_failed_truncated" -> fs_write(fs, f_path, EmptyText)
                  [] d = "write_failed_partial" ->
                       fs_write(fs, f_path, Prefix(f_body, FALSE))
                  [] d = "write_failed_in_trailing_space" ->
                       fs_write(fs, f_path, Prefix(f_body, TRUE))
                  [] OTHER -> fs
       /\ f_result' = IF d = "written"
                        THEN [kind |-> "Ok", path |-> f_path]
                        ELSE FetchErr("IoError", <<d>>)
       /\ IF d = "written" /\ ~f_first[f_path].exists
            THEN /\ f_first' = [f_first EXCEPT ![f_path] = File(f_body)]
                 /\ f_fresh' = TRUE
            ELSE UNCHANGED <<f_first, f_fresh>>
  /\ f_pc' = "done"
  /\ UNCHANGED <<f_element, f_basis_name, file_before, f_path, f_requests, f_body,
                 l_result>>

\* The caller calls fetch_basis_impl again, on the cache as it now is.
FetchCall ==
  /\ f_pc = "done"
  /\ f_pc' = "validate"
  /\ \E c \in CallInputs : f_element' = c[1] /\ f_basis_name' = c[2]
  /\ file_before' = NoFile
  /\ f_path' = NoPath /\ f_requests' = <<>> /\ f_body' = EmptyText
  /\ f_result' = [kind |-> "none"]
  /\ f_fresh' = FALSE
  /\ l_result' = [kind |-> "none"]
  /\ UNCHANGED <<fs, f_first>>

(***************************************************************************)
(* basis.rs: parse_basis                                                   *)
(*                                                                         *)
(* A JSON value is a record of one shape: its type `t`, the characters `s` *)
(* of a string, the halves `hi`, `lo` of an unsigned integer               *)
(* hi * 2^32 + lo, and the `items` of an array.                            *)
(***************************************************************************)
JStr(str) == [t |-> "string", s |-> str, hi |-> 0, lo |-> 0, items |-> <<>>]
JU64(hi, lo) == [t |-> "u64", s |-> <<>>, hi |-> hi, lo |-> lo, items |-> <<>>]
JArr(items) == [t |-> "array", s |-> <<>>, hi |-> 0, lo |-> 0, items |-> items]
\* null, a negative or fractional number, an object: none of the above
JOther == [t |-> "other", s |-> <<>>, hi |-> 0, lo |-> 0, items |-> <<>>]

\* `n as u32` on the u64 that as_u64 returned: the low 32 bits.
as_u32(n) == n.lo

Digits == <<"0", "1", "2", "3", "4", "5", "6", "7", "8", "9">>

IsDigit(c) == \E d \in 1..Len(Digits) : Digits[d] = c

\* The value of a digit character.
Digit(c) == (CHOOSE d \in 1..Len(Digits) : Digits[d] = c) - 1

\* The number of digit characters str starts with.
RECURSIVE DigitCount(_)
DigitCount(str) ==
  IF str = <<>> \/ ~IsDigit(Head(str)) THEN 0 ELSE 1 + DigitCount(Tail(str))

\* The loop of u32::from_str over the characters that follow the sign:
\* `result = result.checked_mul(10)?.checked_add(digit)?`
RECURSIVE u32_digits(_, _)
u32_digits(acc, str) ==
  IF str = <<>> THEN [ok |-> TRUE, value |-> acc]
  ELSE IF ~IsDigit(Head(str)) THEN [ok |-> FALSE, value |-> u32(0)]
  ELSE LET m == mul_u32(acc, u32(10))
           a == add_u32(m.value, u32(Digit(Head(str))))
       IN IF m.overflow \/ a.overflow THEN [ok |-> FALSE, value |-> u32(0)]
          ELSE u32_digits(a.value, Tail(str))

\* str::parse::<u32>: an optional "+", then one or more digits and nothing
\* else; a value above u32::MAX is an error.  The value is in halves.
parse_u32(str) ==
  IF str = <<>> \/ str = <<"+">> \/ str = <<"-">> THEN [ok |-> FALSE, value |-> u32(0)]
  ELSE IF Head(str) = "+" THEN u32_digits(u32(0), Tail(str))
  ELSE u32_digits(u32(0), str)

\* An f64 that str::parse::<f64> returns, named by the shortest decimal it
\* is the nearest f64 to (of two, the one nearer to it):
\* (-1)^neg * d1.d2..dk * 10^exp with d1 # 0 and dk # 0.
\* Zeros and infinities carry their sign; the sign of a NaN is not kept.
F64Finite(neg, digits, exp) ==
  [kind |-> "finite", neg |-> neg, digits |-> digits, exp |-> exp]
F64Zero(neg) == [kind |-> "zero", neg |-> neg, digits |-> <<>>, exp |-> 0]
F64Inf(neg) == [kind |-> "inf", neg |-> neg, digits |-> <<>>, exp |-> 0]
F64NaN == [kind |-> "nan", neg |-> FALSE, digits |-> <<>>, exp |-> 0]

NotF64 == [ok |-> FALSE, value |-> F64NaN]

\* Digit sequences compared as the decimals d1.d2..: a < b.
RECURSIVE DigitsLess(_, _)
DigitsLess(a, b) ==
  IF b = <<>> THEN FALSE
  ELSE IF a = <<>> THEN \E i \in 1..Len(b) : b[i] # 0
  ELSE IF Head(a) # Head(b) THEN Head(a) < Head(b)
  ELSE DigitsLess(Tail(a), Tail(b))

\* The digit characters as numbers.
DigitValues(str) == [i \in 1..Len(str) |-> Digit(str[i])]

\* The number of zeros a digit sequence starts with.
RECURSIVE LeadingZeros(_)
LeadingZeros(ds) ==
  IF ds = <<>> \/ Head(ds) # 0 THEN 0 ELSE 1 + LeadingZeros(Tail(ds))

\* The digit sequence without the zeros it ends with.
RECURSIVE TrimZeros(_)
TrimZeros(ds) ==
  IF ds = <<>> \/ ds[Len(ds)] # 0 THEN ds ELSE TrimZeros(SubSeq(ds, 1, Len(ds) - 1))

\* dec2flt's parse_scientific: the exponent digits are added up only while
\* the sum is below 0x10000.
RECURSIVE exp_digits(_, _)
exp_digits(acc, str) ==
  IF str = <<>> THEN acc
  ELSE exp_digits(IF acc < 2^16 THEN 10 * acc + Digit(Head(str)) ELSE acc, Tail(str))

\* dec2flt's DecimalSeq: the decimal 0.d1d2..dn * 10^p, p its decimal_point.
\* `truncated`: digits other than zeros were dropped behind the last one.
DecimalSeq(ds, p, truncated) == [ds |-> ds, p |-> p, truncated |-> truncated]

\* A decimal that has all its digits.
Decimal(ds, p) == DecimalSeq(ds, p, FALSE)

\* DecimalSeq::MAX_DIGITS: the digits a DecimalSeq holds.
MAX_DIGITS == 768

\* DecimalSeq::DECIMAL_POINT_RANGE: the decimal points it allows.
DECIMAL_POINT_RANGE == 2047

\* Twice the decimal, exactly: each digit doubled, plus the carry of the
\* digit behind.
twice(d) ==
  LET n == Len(d.ds)
      r == SubSeq([j \in 1..n |->
                     ((2 * d.ds[j]) % 10)
                       + (IF j < n /\ d.ds[j + 1] >= 5 THEN 1 ELSE 0)], 1, n)
  IN IF d.ds[1] >= 5 THEN DecimalSeq(TrimZeros(<<1>> \o r), d.p + 1, d.truncated)
     ELSE DecimalSeq(TrimZeros(r), d.p, d.truncated)

\* Half the decimal, exactly: each digit halved, plus 5 when the digit
\* before is odd.
half(d) ==
  LET n == Len(d.ds)
      r == SubSeq([j \in 1..(n + 1) |->
                     (IF j <= n THEN d.ds[j] \div 2 ELSE 0)
                       + (IF j > 1 /\ d.ds[j - 1] % 2 = 1 THEN 5 ELSE 0)], 1, n + 1)
  IN IF d.ds[1] = 1 THEN DecimalSeq(TrimZeros(Tail(r)), d.p - 1, d.truncated)
     ELSE DecimalSeq(TrimZeros(r), d.p, d.truncated)

\* d * 2^q, exactly.
RECURSIVE times_pow2(_, _)
times_pow2(d, q) ==
  IF q = 0 \/ d.ds = <<>> THEN d
  ELSE IF q = 1 THEN twice(d)
  ELSE IF q = -1 THEN half(d)
  ELSE times_pow2(times_pow2(d, q \div 2), q - (q \div 2))

\* The digits a DecimalSeq has room for: those behind the first MAX_DIGITS
\* are dropped, `truncated` is set when one of them is not a zero, and the
\* zeros that end the digits kept are trimmed.
keep_max_digits(d) ==
  IF Len(d.ds) <= MAX_DIGITS THEN d
  ELSE DecimalSeq(TrimZeros(SubSeq(d.ds, 1, MAX_DIGITS)), d.p, TRUE)

\* DecimalSeq::left_shift: the decimal times 2^shift, in MAX_DIGITS digits.
left_shift(d, shift) ==
  IF d.ds = <<>> THEN d ELSE keep_max_digits(times_pow2(d, shift))

\* A quotient with a decimal point below the range is the decimal zero.
in_point_range(d) ==
  IF d.p < -DECIMAL_POINT_RANGE THEN DecimalSeq(<<>>, 0, FALSE)
  ELSE keep_max_digits(d)

\* DecimalSeq::right_shift: the decimal divided by 2^shift, in MAX_DIGITS
\* digits.
right_shift(d, shift) ==
  IF d.ds = <<>> THEN d ELSE in_point_range(times_pow2(d, -shift))

\* The digits of the number plus one.
RECURSIVE Increment(_)
Increment(ds) ==
  IF ds = <<>> THEN <<1>>
  ELSE IF ds[Len(ds)] < 9 THEN [ds EXCEPT ![Len(ds)] = @ + 1]
  ELSE Increment(SubSeq(ds, 1, Len(ds) - 1)) \o <<0>>

\* Is 0.rest above a half, or a half when the digit before it is odd?
RoundsUp(last, rest) == DigitsLess(<<5>>, rest) \/ (rest = <<5>> /\ last % 2 = 1)

\* Numbers as digits without zeros in front: a < b.
NatLess(a, b) == Len(a) < Len(b) \/ (Len(a) = Len(b) /\ DigitsLess(a, b))

\* u64::MAX and 2^53, in digits.
U64Max == <<1, 8, 4, 4, 6, 7, 4, 4, 0, 7, 3, 7, 0, 9, 5, 5, 1, 6, 1, 5>>
TwoTo53 == <<9, 0, 0, 7, 1, 9, 9, 2, 5, 4, 7, 4, 0, 9, 9, 2>>

\* The integer part of a decimal, in digits.
integer_part(d) ==
  SubSeq([i \in 1..d.p |-> IF i <= Len(d.ds) THEN d.ds[i] ELSE 0], 1, d.p)

\* DecimalSeq::round's round_up: the first digit of the fraction is 5 or
\* more; when it is a 5 and the last digit, the decimal was truncated or
\* the digit before it is odd.
round_up(d) ==
  /\ d.p < Len(d.ds)
  /\ IF d.ds[d.p + 1] = 5 /\ d.p + 1 = Len(d.ds)
       THEN d.truncated \/ (d.p # 0 /\ d.ds[d.p] % 2 = 1)
     ELSE d.ds[d.p + 1] >= 5

\* DecimalSeq::round: the decimal rounded to an integer, in digits.
round(d) ==
  IF d.ds = <<>> \/ d.p < 0 THEN <<>>
  ELSE IF d.p > 18 THEN U64Max
  ELSE IF round_up(d) THEN Increment(integer_part(d))
  ELSE integer_part(d)

\* parse_long_mantissa's constants: the largest shift of one step, and the
\* shift that takes n decimal digits off or adds them.
MAX_SHIFT == 60
POWERS == <<0, 3, 6, 9, 13, 16, 19, 23, 26, 29, 33, 36, 39, 43, 46, 49, 53, 56, 59>>
NUM_POWERS == 19

get_shift(n) == IF n < NUM_POWERS THEN POWERS[n + 1] ELSE MAX_SHIFT

\* f64 as RawFloat: the bits of the fraction, the exponent of the
\* subnormals less one, and the biased exponent of the infinities.
MANTISSA_EXPLICIT_BITS == 52
MINIMUM_EXPONENT == -1023
INFINITE_POWER == 2047

\* An f64 as mantissa and exponent, m * 2^q: m is the mantissa with its
\* hidden bit, in 16 digits, and q the exponent of its last bit.
BiasedFp(m, exp2) ==
  [m |-> SubSeq([j \in 1..16 |-> IF j - 16 + Len(m) >= 1
                                   THEN m[j - 16 + Len(m)] ELSE 0], 1, 16),
   q |-> exp2 - MANTISSA_EXPLICIT_BITS]

\* The zero, and what stands for an infinity: an exponent above f64::MAX's.
fp_zero == BiasedFp(<<>>, MINIMUM_EXPONENT + 1)
fp_inf == BiasedFp(<<>>, INFINITE_POWER + MINIMUM_EXPONENT)

\* parse_long_mantissa's state: the decimal d and exp2 with d * 2^exp2 kept,
\* or the zero or the infinity it has returned.
Shifting(d, exp2) == [kind |-> "shifting", d |-> d, exp2 |-> exp2]
Stopped(kind) == [kind |-> kind, d |-> DecimalSeq(<<>>, 0, FALSE), exp2 |-> 0]

\* "Shift right toward (1/2 ... 1]": while the decimal point is above 0.
RECURSIVE shift_right_toward_one(_)
shift_right_toward_one(s) ==
  IF s.d.p < -DECIMAL_POINT_RANGE THEN Stopped("zero")
  ELSE IF s.d.p <= 0 THEN s
  ELSE shift_right_toward_one(Shifting(right_shift(s.d, get_shift(s.d.p)),
                                       s.exp2 + get_shift(s.d.p)))

\* The shift of one step to the left.
left_step(d) ==
  IF d.p = 0 THEN (IF d.ds[1] < 2 THEN 2 ELSE 1) ELSE get_shift(-d.p)

\* "Shift left toward (1/2 ... 1]": while the decimal point is 0 or below,
\* until the decimal is a half or more.
RECURSIVE shift_left_toward_one(_)
shift_left_toward_one(s) ==
  IF s.kind # "shifting" THEN s
  ELSE IF s.d.p > DECIMAL_POINT_RANGE THEN Stopped("inf")
  ELSE IF s.d.p > 0 \/ (s.d.p = 0 /\ s.d.ds[1] >= 5) THEN s
  ELSE shift_left_toward_one(Shifting(left_shift(s.d, left_step(s.d)),
                                      s.exp2 - left_step(s.d)))

\* The binary format uses [1 ... 2): exp2 less one.
to_one_two(s) == IF s.kind # "shifting" THEN s ELSE Shifting(s.d, s.exp2 - 1)

\* The shift of one step towards the exponent of the subnormals.
minimum_step(exp2) ==
  IF MINIMUM_EXPONENT + 1 - exp2 > MAX_SHIFT THEN MAX_SHIFT
  ELSE MINIMUM_EXPONENT + 1 - exp2

\* While exp2 is below the exponent of the subnormals: shift right.
RECURSIVE shift_to_minimum(_)
shift_to_minimum(s) ==
  IF s.kind # "shifting" \/ s.exp2 >= MINIMUM_EXPONENT + 1 THEN s
  ELSE shift_to_minimum(Shifting(right_shift(s.d, minimum_step(s.exp2)),
                                 s.exp2 + minimum_step(s.exp2)))

\* "Shift the decimal to the hidden bit", unless the exponent is an
\* infinity's.
shift_to_hidden_bit(s) ==
  IF s.kind # "shifting" THEN s
  ELSE IF s.exp2 - MINIMUM_EXPONENT >= INFINITE_POWER THEN Stopped("inf")
  ELSE Shifting(left_shift(s.d, MANTISSA_EXPLICIT_BITS + 1), s.exp2)

\* parse_long_mantissa before the rounding: the decimal shifted until its
\* integer part is the mantissa, with the exponent.
shift_to_mantissa(d) ==
  shift_to_hidden_bit(shift_to_minimum(to_one_two(
    shift_left_toward_one(shift_right_toward_one(Shifting(d, 0))))))

\* The mantissa rounded; when "rounding up overflowed to the carry bit",
\* the decimal is shifted back and rounded again.
rounded(s, mantissa) ==
  IF NatLess(mantissa, TwoTo53) THEN BiasedFp(mantissa, s.exp2)
  ELSE IF s.exp2 + 1 - MINIMUM_EXPONENT >= INFINITE_POWER THEN fp_inf
  ELSE BiasedFp(round(right_shift(s.d, 1)), s.exp2 + 1)

biased_fp(s) ==
  IF s.kind = "zero" THEN fp_zero
  ELSE IF s.kind = "inf" THEN fp_inf
  ELSE rounded(s, round(s.d))

\* dec2flt's parse_long_mantissa: the f64 nearest to a decimal, as mantissa
\* and exponent.
parse_long_mantissa(d) ==
  IF d.ds = <<>> \/ d.p < -324 THEN fp_zero
  ELSE IF d.p >= 310 THEN fp_inf
  ELSE biased_fp(shift_to_mantissa(d))

\* dec2flt's parse_decimal_seq on the digits sig, without zeros in front or
\* behind, and the decimal point p: MAX_DIGITS digits of them are kept.
parse_decimal_seq(sig, p) ==
  IF Len(sig) > MAX_DIGITS THEN DecimalSeq(SubSeq(sig, 1, MAX_DIGITS), p, TRUE)
  ELSE DecimalSeq(sig, p, FALSE)

\* The digits of an f64's mantissa without the zeros in front, as a decimal.
MantissaDecimal(m, lz) == Decimal(TrimZeros(SubSeq(m, lz + 1, 16)), 16 - lz)

\* The exact decimal of the f64 m * 2^q, m # 0.
ExactDecimal(b) == times_pow2(MantissaDecimal(b.m, LeadingZeros(b.m)), b.q)

\* The first k digits of a decimal, or their successor `next`.
round_digits(up, head, next, k, p) ==
  IF ~up THEN Decimal(TrimZeros(head), p)
  ELSE IF Len(next) > k THEN Decimal(<<1>>, p + 1)
  ELSE Decimal(TrimZeros(next), p)

\* A decimal of more than k digits rounded to k: to the nearest (ties to
\* even), or to its neighbour on the other side.
round_to(d, k, nearest) ==
  round_digits(RoundsUp(d.ds[k], SubSeq(d.ds, k + 1, Len(d.ds))) = nearest,
               SubSeq(d.ds, 1, k), Increment(SubSeq(d.ds, 1, k)), k, d.p)

\* The first of the decimals cs that the f64 b is the nearest f64 to, or
\* the decimal without digits when there is none.
RECURSIVE first_named(_, _)
first_named(b, cs) ==
  IF cs = <<>> THEN Decimal(<<>>, 0)
  ELSE IF parse_long_mantissa(Head(cs)) = b THEN Head(cs)
  ELSE first_named(b, Tail(cs))

\* The shortest decimal, of k digits or more, that the f64 b with the exact
\* decimal x is the nearest f64 to; of two, the one nearer to x.
RECURSIVE shortest(_, _, _)
RECURSIVE shortest_from(_, _, _, _)
shortest(b, x, k) ==
  IF Len(x.ds) <= k THEN x
  ELSE shortest_from(b, x, k,
                     first_named(b, <<round_to(x, k, TRUE), round_to(x, k, FALSE)>>))

shortest_from(b, x, k, c) == IF c.ds # <<>> THEN c ELSE shortest(b, x, k + 1)

\* A finite f64 by the decimal that names it.
finite_f64(neg, c) == F64Finite(neg, c.ds, c.p - 1)

\* The f64 of mantissa and exponent b, by its name.
named_f64(neg, b) ==
  IF b.q > 971 THEN F64Inf(neg)
  ELSE IF b.m = [j \in 1..16 |-> 0] THEN F64Zero(neg)
  ELSE finite_f64(neg, shortest(b, ExactDecimal(b), 1))

\* The f64 nearest to (-1)^neg * d1.d2..dk * 10^e, d1 # 0 and dk # 0, ties
\* to the even mantissa.  A decimal of up to f64::DIGITS = 15 digits between
\* 10^-307 and 10^308 is the shortest name of its f64.
round_decimal(neg, sig, e) ==
  IF sig = <<>> THEN F64Zero(neg)
  ELSE IF Len(sig) <= 15 /\ e >= -307 /\ e < 308 THEN F64Finite(neg, sig, e)
  ELSE named_f64(neg, parse_long_mantissa(parse_decimal_seq(sig, e + 1)))

\* The digits without the lz zeros in front and the zeros behind.
Significant(ds, lz) == TrimZeros(SubSeq(ds, lz + 1, Len(ds)))

\* The f64 nearest to (-1)^neg * 0.ds * 10^(point + exp).
round_f64(neg, ds, point, exp) ==
  round_decimal(neg, Significant(ds, LeadingZeros(ds)),
                point - LeadingZeros(ds) - 1 + exp)

\* dec2flt's parse_scientific on what follows the mantissa: nothing, or "e"
\* or "E", an optional sign, then one or more digits and nothing else.  The
\* value is the exponent.
parse_scientific(str) ==
  LET signed == Len(str) > 1 /\ str[2] \in {"+", "-"}
      digits == SubSeq(str, IF signed THEN 3 ELSE 2, Len(str))
  IN IF str = <<>> THEN [ok |-> TRUE, value |-> 0]
     ELSE IF \/ Head(str) \notin {"e", "E"}
             \/ digits = <<>>
             \/ DigitCount(digits) # Len(digits)
       THEN [ok |-> FALSE, value |-> 0]
     ELSE [ok |-> TRUE,
           value |-> IF signed /\ str[2] = "-" THEN -exp_digits(0, digits)
                     ELSE exp_digits(0, digits)]

\* The number of the mantissa digits ds, `point` of them before the point,
\* and the exponent x; a number has at least one mantissa digit.
with_exponent(neg, ds, point, x) ==
  IF ds = <<>> \/ ~x.ok THEN NotF64
  ELSE [ok |-> TRUE, value |-> round_f64(neg, ds, point, x.value)]

\* The mantissa is n1 digits from the first character and n2 digits behind
\* position pos; what follows is the exponent.
parse_exponent(neg, str, n1, n2, pos) ==
  with_exponent(neg, DigitValues(SubSeq(str, 1, n1) \o SubSeq(str, pos + 1, pos + n2)),
                n1, parse_scientific(SubSeq(str, pos + n2 + 1, Len(str))))

\* Is there a "." behind the first n1 characters?
HasPoint(str, n1) == n1 < Len(str) /\ str[n1 + 1] = "."

\* The digits behind the point, if there is one.
FractionDigits(str, n1) ==
  IF HasPoint(str, n1) THEN DigitCount(SubSeq(str, n1 + 2, Len(str))) ELSE 0

\* The mantissa that starts with n1 digits.
parse_mantissa(neg, str, n1) ==
  parse_exponent(neg, str, n1, FractionDigits(str, n1),
                 IF HasPoint(str, n1) THEN n1 + 1 ELSE n1)

\* dec2flt's parse_number on what follows the sign: digits, an optional
\* "." and digits, with at least one digit in all, then an optional
\* exponent, and nothing else.
parse_number(neg, str) == parse_mantissa(neg, str, DigitCount(str))

\* str and word are equal up to the case of ASCII letters (word is in
\* lower case).
EqIgnoreAsciiCase(str, word) ==
  /\ Len(str) = Len(word)
  /\ \A i \in 1..Len(word) :
       \/ str[i] = word[i]
       \/ \E a \in 1..Len(LowerCase) : LowerCase[a] = word[i] /\ UpperCase[a] = str[i]

\* dec2flt's parse_inf_nan on what follows the sign.
parse_inf_nan(neg, str) ==
  IF EqIgnoreAsciiCase(str, <<"n", "a", "n">>) THEN [ok |-> TRUE, value |-> F64NaN]
  ELSE IF \/ EqIgnoreAsciiCase(str, <<"i", "n", "f">>)
          \/ EqIgnoreAsciiCase(str, <<"i", "n", "f", "i", "n", "i", "t", "y">>)
    THEN [ok |-> TRUE, value |-> F64Inf(neg)]
  ELSE NotF64

\* The number when there is one, else inf, infinity or nan.
number_or_word(number, word) == IF number.ok THEN number ELSE word

\* str::parse::<f64>: an optional sign, then a number or inf, infinity, nan
\* in any case of letters.
parse_f64(str) ==
  LET signed == str # <<>> /\ Head(str) \in {"+", "-"}
      neg == signed /\ Head(str) = "-"
      rest == IF signed THEN Tail(str) ELSE str
  IN IF rest = <<>> THEN NotF64
     ELSE number_or_word(parse_number(neg, rest), parse_inf_nan(neg, rest))

\* An error of parse_basis: the variant, the index or count it carries, the
\* reason of a MalformedShell and the key of an InvalidAtomicNumber.
ParseErr(variant, index, reason) ==
  [kind |-> "Err",
   error |-> [variant |-> variant, index |-> index, reason |-> reason, key |-> <<>>]]

InvalidAtomicNumber(z_str) ==
  [kind |-> "Err",
   error |-> [variant |-> "InvalidAtomicNumber", index |-> 0, reason |-> "",
              key |-> z_str]]

MalformedShell(idx, reason) == ParseErr("MalformedShell", idx, reason)

\* Every item is a string that parses as f64.
AllF64(items) ==
  \A i \in 1..Len(items) : items[i].t = "string" /\ parse_f64(items[i].s).ok

\* The `.map(..).collect::<Result<Vec<f64>, _>>()` over an array of strings
CollectF64(items) == [i \in 1..Len(items) |-> parse_f64(items[i].s).value]

\* The loop over angular_momenta.iter().zip(coeff_arr.iter()) from pair j
\* on: the shells pushed, or the first error.
RECURSIVE zip_shells(_, _, _, _, _)
zip_shells(idx, am, exponents, coeff_arr, j) ==
  IF j > Len(am) \/ j > Len(coeff_arr) THEN [ok |-> TRUE, shells |-> <<>>]
  ELSE IF coeff_arr[j].t # "array"
    THEN [ok |-> FALSE, err |-> MalformedShell(idx, "coefficient set is not an array")]
  ELSE IF Len(coeff_arr[j].items) # Len(exponents)
    THEN [ok |-> FALSE, err |-> MalformedShell(idx, "coefficient vector length")]
  ELSE IF ~AllF64(coeff_arr[j].items)
    THEN [ok |-> FALSE, err |-> MalformedShell(idx, "coefficient")]
  ELSE LET rest == zip_shells(idx, am, exponents, coeff_arr, j + 1)
       IN IF ~rest.ok THEN rest
          ELSE [ok |-> TRUE,
                shells |-> <<ElectronShell(am[j], exponents,
                                           CollectF64(coeff_arr[j].items))>>
                             \o rest.shells]

\* The body of the loop over shells_raw for the entry shell_val at idx.
parse_entry(idx, shell_val) ==
  LET am_arr == shell_val.angular_momentum
      exp_arr == shell_val.exponents
      coeff_arr == shell_val.coefficients
      angular_momenta == [i \in 1..Len(am_arr.items) |-> as_u32(am_arr.items[i])]
  IN IF am_arr.t # "array"
       THEN [ok |-> FALSE, err |-> MalformedShell(idx, "missing or invalid angular_momentum")]
     ELSE IF am_arr.items = <<>>
       THEN [ok |-> FALSE, err |-> MalformedShell(idx, "angular_momentum is empty")]
     ELSE IF \E i \in 1..Len(am_arr.items) : am_arr.items[i].t # "u64"
       THEN [ok |-> FALSE, err |-> MalformedShell(idx, "angular_momentum entry")]
     ELSE IF exp_arr.t # "array"
       THEN [ok |-> FALSE, err |-> MalformedShell(idx, "missing or invalid exponents")]
     ELSE IF ~AllF64(exp_arr.items)
       THEN [ok |-> FALSE, err |-> MalformedShell(idx, "exponent")]
     ELSE IF coeff_arr.t # "array"
       THEN [ok |-> FALSE, err |-> MalformedShell(idx, "missing or invalid coefficients")]
     ELSE IF Len(coeff_arr.items) # Len(angular_momenta)
       THEN [ok |-> FALSE, err |-> MalformedShell(idx, "coefficient vector count")]
     ELSE zip_shells(idx, angular_momenta, CollectF64(exp_arr.items),
                     coeff_arr.items, 1)

\* One entry of `electron_shells`, by its three members.
Entry(am, exps, coefs) ==
  [angular_momentum |-> am, exponents |-> exps, coefficients |-> coefs]

F64Strings(strs) == JArr([i \in 1..Len(strs) |-> JStr(strs[i])])
Momenta(ls) == JArr([i \in 1..Len(ls) |-> JU64(0, ls[i])])

Exps2 == F64Strings(<< <<"1", ".", "2">>, <<"0", ".", "5">> >>)
Exps3 == F64Strings(<< <<"1", "6", ".", "1", "0">>, <<"2", ".", "9">>,
                       <<"0", ".", "7">> >>)
Vec2a == F64Strings(<< <<"0", ".", "8">>, <<"0", ".", "4">> >>)
Vec2b == F64Strings(<< <<"0", ".", "2">>, <<"0", ".", "1">> >>)
Vec3a == F64Strings(<< <<"0", ".", "1">>, <<"0", ".", "5">>, <<"0", ".", "4">> >>)
Vec3b == F64Strings(<< <<"0", ".", "2">>, <<"0", ".", "8">>, <<"0", ".", "1">> >>)

\* The hydrogen s shell of STO-3G, as the Basis Set Exchange writes it.
ExpsSto == F64Strings(<< <<"3", ".", "4", "2", "5", "2", "5", "0", "9">>,
                         <<"0", ".", "6", "2", "3", "9", "1", "3", "7">>,
                         <<"0", ".", "1", "6", "8", "8", "5", "5", "4">> >>)
VecSto == F64Strings(<< <<"0", ".", "1", "5", "4", "3", "2", "8", "9", "7">>,
                        <<"0", ".", "5", "3", "5", "3", "2", "8", "1", "4">>,
                        <<"0", ".", "4", "4", "4", "6", "3", "4", "5", "4">> >>)

\* Numbers in the other spellings f64's parser takes: an exponent, a sign,
\* no digit before or after the point, no point, infinity, NaN, an
\* exponent out of f64's range on either side, minus zero, and more digits
\* than an f64 holds: 0.1 and a little, 2^53 + 1.
ExpsOdd == F64Strings(<< <<"1", "e", "2">>, <<"+", "0", ".", "5">>, <<".", "5">>,
                         <<"5", ".">>, <<"1">>, <<"1", "E", "-", "0", "2">>,
                         <<"0", ".", "1", "0", "0", "0", "0", "0", "0", "0", "0",
                           "0", "0", "0", "0", "0", "0", "0", "0", "0", "0", "1">> >>)
VecOdd == F64Strings(<< <<"i", "n", "f">>, <<"N", "a", "N">>,
                        <<"-", "I", "n", "f", "i", "n", "i", "t", "y">>,
                        <<"1", "e", "9", "9", "9">>, <<"-", "1", "e", "-", "9", "9", "9">>,
                        <<"-", "0", ".", "5">>,
                        <<"9", "0", "0", "7", "1", "9", "9", "2", "5", "4", "7", "4",
                          "0", "9", "9", "3">> >>)

\* Strings that are no f64: letters, nothing, a point alone, an exponent
\* without digits, a space in front, a sign alone.
NotNumbers ==
  { <<"a", "b", "c">>, <<>>, <<".">>, <<"1", "e">>, <<" ", "1">>, <<"-">> }

\* Entries that parse: s; sp; d and s sharing exponents; a momentum of
\* 2^32; a p shell without primitives; the STO-3G shell; the other
\* spellings.
GoodEntries ==
  { Entry(Momenta(<<0>>), Exps2, JArr(<<Vec2a>>)),
    Entry(Momenta(<<0>>), ExpsSto, JArr(<<VecSto>>)),
    Entry(Momenta(<<0>>), ExpsOdd, JArr(<<VecOdd>>)),
    Entry(Momenta(<<0, 1>>), Exps3, JArr(<<Vec3a, Vec3b>>)),
    Entry(Momenta(<<2, 0>>), Exps2, JArr(<<Vec2b, Vec2a>>)),
    Entry(JArr(<<JU64(1, 0)>>), Exps2, JArr(<<Vec2a>>)),
    Entry(Momenta(<<1>>), JArr(<<>>), JArr(<<JArr(<<>>)>>)) }

\* Entries with too few or too many coefficient vectors, or a vector whose
\* length is not the number of exponents.
MismatchedEntries ==
  { Entry(Momenta(<<0, 1>>), Exps2, JArr(<<Vec2a>>)),
    Entry(Momenta(<<0>>), Exps2, JArr(<<Vec2a, Vec2b>>)),
    Entry(Momenta(<<0>>), Exps3, JArr(<<Vec2a>>)),
    Entry(Momenta(<<0, 1>>), Exps3, JArr(<<Vec3a, Vec2a>>)) }

\* Entries with a member missing or of the wrong type, or a number that
\* does not parse.
BrokenEntries ==
  { Entry(JOther, Exps2, JArr(<<Vec2a>>)),
    Entry(JArr(<<>>), Exps2, JArr(<<Vec2a>>)),
    Entry(JArr(<<JU64(0, 0), JOther>>), Exps2, JArr(<<Vec2a, Vec2b>>)),
    Entry(Momenta(<<0>>), JOther, JArr(<<Vec2a>>)),
    Entry(Momenta(<<0>>), F64Strings(<< <<"a", "b", "c">>, <<"0", ".", "5">> >>),
          JArr(<<Vec2a>>)),
    Entry(Momenta(<<0>>), Exps2, JOther),
    Entry(Momenta(<<0>>), Exps2, JArr(<<JOther>>)),
    Entry(Momenta(<<0>>), Exps2,
          JArr(<<F64Strings(<< <<"0", ".", "8">>, <<"1", "e">> >>)>>)) }

Entries == GoodEntries \cup MismatchedEntries \cup BrokenEntries

\* A file: whether it can be read, whether it is JSON, what `elements` is
\* ("absent", "other", "object"), the keys of `elements`, and the
\* `electron_shells` of its one element.
Doc(readable, is_json, elements, keys, has_shells, entries) ==
  [readable |-> readable, is_json |-> is_json, elements |-> elements,
   keys |-> keys, has_shells |-> has_shells, entries |-> entries]

\* Keys of `elements` that are no atomic number: zero, 119, letters,
\* nothing, a minus sign, a sign alone, a space in front, u32::MAX, 2^32.
BadKeys ==
  { <<"0">>, <<"1", "1", "9">>, <<"a", "b", "c">>, <<>>, <<"-", "1">>, <<"+">>,
    <<" ", "1">>, <<"4", "2", "9", "4", "9", "6", "7", "2", "9", "5">>,
    <<"4", "2", "9", "4", "9", "6", "7", "2", "9", "6">> }

\* Keys that are an atomic number: lithium, copper, oganesson, and
\* hydrogen written with a zero and with a plus sign in front.
GoodKeys ==
  { <<"3">>, <<"2", "9">>, <<"1", "1", "8">>, <<"0", "1">>, <<"+", "1">> }

\* Files that fail before the loop over the entries.
HeaderDocs ==
  { Doc(FALSE, FALSE, "absent", <<>>, FALSE, <<>>),
    Doc(TRUE, FALSE, "absent", <<>>, FALSE, <<>>),
    Doc(TRUE, TRUE, "absent", <<>>, FALSE, <<>>),
    Doc(TRUE, TRUE, "other", <<>>, FALSE, <<>>),
    Doc(TRUE, TRUE, "object", <<>>, FALSE, <<>>),
    Doc(TRUE, TRUE, "object", << <<"1">>, <<"3">> >>, FALSE, <<>>),
    Doc(TRUE, TRUE, "object", << <<"1">> >>, FALSE, <<>>) }
  \cup { Doc(TRUE, TRUE, "object", <<key>>, FALSE, <<>>) : key \in BadKeys }

\* Files with one element and an `electron_shells` array.
ShellDocs ==
  { Doc(TRUE, TRUE, "object", <<key>>, TRUE, es) :
      key \in GoodKeys,
      es \in UNION { [1..n -> Entries] : n \in 0..MaxEntries } }

ParseIdle ==
  /\ p_pc = "idle"
  /\ p_doc = Doc(FALSE, FALSE, "absent", <<>>, FALSE, <<>>)
  /\ p_z = 0 /\ p_idx = 0 /\ p_shells = <<>>
  /\ p_result = [kind |-> "none"]

\* parse_basis(path) has been called on some file.
ParseInit ==
  /\ p_pc = "header"
  /\ p_doc \in HeaderDocs \cup ShellDocs
  /\ p_z = 0 /\ p_idx = 0 /\ p_shells = <<>>
  /\ p_result = [kind |-> "none"]

\* Everything before the loop: the outcome for a file.
header(doc) ==
  IF ~doc.readable THEN ParseErr("IoError", 0, "")
  ELSE IF ~doc.is_json THEN ParseErr("InvalidJson", 0, "")
  ELSE IF doc.elements # "object" THEN ParseErr("NoElements", 0, "")
  ELSE IF Len(doc.keys) = 0 THEN ParseErr("NoElements", 0, "")
  ELSE IF Len(doc.keys) # 1 THEN ParseErr("MultipleElements", Len(doc.keys), "")
  ELSE IF ~(/\ parse_u32(doc.keys[1]).ok
            /\ parse_u32(doc.keys[1]).value.hi = 0
            /\ parse_u32(doc.keys[1]).value.lo \in 1..118)
    THEN InvalidAtomicNumber(doc.keys[1])
  ELSE IF ~doc.has_shells THEN ParseErr("NoElectronShells", 0, "")
  ELSE IF doc.entries = <<>> THEN ParseErr("NoElectronShells", 0, "")
  ELSE [kind |-> "Ok", z |-> int(parse_u32(doc.keys[1]).value)]

\* Reading the file down to `let mut shells = Vec::new()`.
ParseHeader ==
  /\ p_pc = "header"
  /\ IF header(p_doc).kind = "Ok"
       THEN /\ p_z' = header(p_doc).z
            /\ p_pc' = "entry"
            /\ UNCHANGED p_result
       ELSE /\ p_result' = header(p_doc)
            /\ p_pc' = "done"
            /\ UNCHANGED p_z
  /\ UNCHANGED <<p_doc, p_idx, p_shells>>

\* One pass of the loop over shells_raw.
ParseEntry ==
  /\ p_pc = "entry"
  /\ p_idx < Len(p_doc.entries)
  /\ LET r == parse_entry(p_idx, p_doc.entries[p_idx + 1])
     IN IF r.ok
          THEN /\ p_shells' = p_shells \o r.shells
               /\ p_idx' = p_idx + 1
               /\ UNCHANGED <<p_pc, p_result>>
          ELSE /\ p_result' = r.err
               /\ p_pc' = "done"
               /\ UNCHANGED <<p_shells, p_idx>>
  /\ UNCHANGED <<p_doc, p_z>>

\* `Ok(BasisSet { element: symbol, atomic_number: z, shells })`
ParseReturn ==
  /\ p_pc = "entry"
  /\ p_idx = Len(p_doc.entries)
  /\ p_result' = [kind |-> "Ok",
                  value |-> [element |-> ELEMENTS[p_z], atomic_number |-> p_z,
                             shells |-> p_shells]]
  /\ p_pc' = "done"
  /\ UNCHANGED <<p_doc, p_z, p_idx, p_shells>>

(***************************************************************************)
(* basis.rs: load_basis_impl                                               *)
(***************************************************************************)
\* The loop over shells_raw from entry idx on: all shells, or the first error.
RECURSIVE parse_shells(_, _)
parse_shells(entries, idx) ==
  IF idx >= Len(entries) THEN [ok |-> TRUE, shells |-> <<>>]
  ELSE LET r == parse_entry(idx, entries[idx + 1])
       IN IF ~r.ok THEN r
          ELSE LET rest == parse_shells(entries, idx + 1)
               IN IF ~rest.ok THEN rest
                  ELSE [ok |-> TRUE, shells |-> r.shells \o rest.shells]

\* parse_basis as one function of the file.
parse_basis(doc) ==
  IF header(doc).kind # "Ok" THEN header(doc)
  ELSE LET r == parse_shells(doc.entries, 0)
       IN IF ~r.ok THEN r.err
          ELSE [kind |-> "Ok",
                value |-> [element |-> ELEMENTS[header(doc).z],
                           atomic_number |-> header(doc).z,
                           shells |-> r.shells]]

\* The file as parse_basis reads it: the cached and the served text hold
\* one element with an s entry, resp. an sp entry.
DocOf(file) ==
  LET t == file.text IN
  Doc(file.exists, file.exists /\ t.is_json,
      CASE t.elements \in {"object", "empty_object"} -> "object"
        [] t.elements \in {"empty_array", "other"} -> "other"
        [] OTHER -> "absent",
      IF t.elements # "object" THEN <<>>
        ELSE IF t.id = ServedJson.id THEN << <<"3">> >> ELSE << <<"1">> >>,
      t.elements = "object" /\ t.id \in {CachedJson.id, ServedJson.id},
      CASE t.elements # "object" -> <<>>
        [] t.id = CachedJson.id -> <<Entry(Momenta(<<0>>), Exps2, JArr(<<Vec2a>>))>>
        [] t.id = ServedJson.id ->
             <<Entry(Momenta(<<0, 1>>), Exps3, JArr(<<Vec3a, Vec3b>>))>>
        [] OTHER -> <<>>)

\* Faulty variant of LoadParse: a file that does not parse is deleted, so
\* that the next call downloads it again.
LoadParseRepairs ==
  /\ f_pc = "done"
  /\ l_result.kind = "none"
  /\ IF f_result.kind = "Err"
       THEN /\ l_result' = [kind |-> "Err", variant |-> "Fetch", source |-> f_result.error]
            /\ UNCHANGED fs
       ELSE LET r == parse_basis(DocOf(fs[f_result.path]))
            IN IF r.kind = "Ok"
                 THEN l_result' = r /\ UNCHANGED fs
                 ELSE /\ l_result' = [kind |-> "Err", variant |-> "Parse",
                                      source |-> r.error]
                      /\ fs' = [fs EXCEPT ![f_result.path] = NoFile]
  /\ UNCHANGED <<f_pc, f_element, f_basis_name, file_before, f_path, f_requests,
                 f_body, f_result, f_first, f_fresh>>

\* load_basis_impl after its fetch_basis_impl call has returned: the fetch
\* error wrapped as Fetch, or parse_basis on the path, its error wrapped as
\* Parse.
LoadParse ==
  /\ f_pc = "done"
  /\ l_result.kind = "none"
  /\ IF f_result.kind = "Err"
       THEN l_result' = [kind |-> "Err", variant |-> "Fetch", source |-> f_result.error]
       ELSE LET r == parse_basis(DocOf(fs[f_result.path]))
            IN l_result' = IF r.kind = "Ok" THEN r
                           ELSE [kind |-> "Err", variant |-> "Parse",
                                 source |-> r.error]
  /\ UNCHANGED <<f_pc, f_element, f_basis_name, fs, file_before, f_path, f_requests,
                 f_body, f_result, f_first, f_fresh>>

(***************************************************************************)
(* input.rs: YAML values                                                   *)
(*                                                                         *)
(* A YAML value is a record of one shape: its type `t`, the characters `s` *)
(* of a string, the number `v` of an integer or a float, the `items` of a  *)
(* sequence.                                                               *)
(***************************************************************************)
YStr(str) == [t |-> "string", s |-> str, v |-> 0, items |-> <<>>]
YInt(n) == [t |-> "int", s |-> <<>>, v |-> n, items |-> <<>>]
YFloat(n) == [t |-> "float", s |-> <<>>, v |-> n, items |-> <<>>]
YSeq(items) == [t |-> "sequence", s |-> <<>>, v |-> 0, items |-> items]
YNull == [t |-> "null", s |-> <<>>, v |-> 0, items |-> <<>>]

\* Value::as_f64: integers and floats
as_f64(val) == [some |-> val.t \in {"int", "float"}, v |-> val.v]

\* Value::as_i64: integers only
as_i64(val) == [some |-> val.t = "int", v |-> val.v]

InputErr(variant, field, sym, a, b) ==
  [kind |-> "Err",
   error |-> [variant |-> variant, field |-> field, sym |-> sym, a |-> a, b |-> b]]

\* input.rs normalize_element: the title-cased symbol if it is an element,
\* else InvalidElement carrying the argument as given.
input_normalize_element(sym) ==
  IF sym = <<>> THEN [ok |-> FALSE, value |-> sym]
  ELSE IF \E z \in 1..Len(ELEMENTS) :
            ELEMENTS[z] = UpperChar(Head(sym)) \o to_lowercase(Tail(sym))
    THEN [ok |-> TRUE, value |-> UpperChar(Head(sym)) \o to_lowercase(Tail(sym))]
    ELSE [ok |-> FALSE, value |-> sym]

(***************************************************************************)
(* input.rs: parse_cartesian                                               *)
(***************************************************************************)
\* The values tried as entries of `symbols`.
SymbolItems ==
  { YStr(<<"h", "E">>), YStr(<<"O">>), YStr(<<"U+017F", "I">>), YStr(<<"z", "z">>),
    YInt(8) }

\* The values tried under "symbols".
SymbolValues ==
  { YNull } \cup
  { YSeq(items) : items \in UNION { [1..n -> SymbolItems] : n \in 0..MaxSymbols } }

\* A geometry of n entries: entry k is the number k, an integer when k is
\* even, except that entry `bad`, if there is one, is a string.
GeoItems(n, bad) ==
  [k \in 1..n |-> IF k = bad THEN YStr(<<"a">>)
                  ELSE IF k % 2 = 0 THEN YInt(k) ELSE YFloat(k)]

\* The values tried under "geometry".
GeometryValues ==
  { YNull } \cup
  { YSeq(GeoItems(n, bad)) : n \in 0..(3 * MaxSymbols + 1), bad \in 0..(3 * MaxSymbols + 1) }

\* 1 for bohr, 2 standing for ANGSTROM_TO_BOHR
Factors == {1, 2}

XyzIdle ==
  /\ xyz_pc = "idle"
  /\ xyz_sym_val = YNull /\ xyz_geo_val = YNull /\ xyz_factor = 1
  /\ xyz_symbols = <<>> /\ xyz_x = <<>> /\ xyz_y = <<>> /\ xyz_z = <<>>
  /\ xyz_result = [kind |-> "none"]

XyzInit ==
  /\ xyz_pc = "symbols"
  /\ xyz_sym_val \in SymbolValues
  /\ xyz_geo_val \in GeometryValues
  /\ xyz_factor \in Factors
  /\ xyz_symbols = <<>> /\ xyz_x = <<>> /\ xyz_y = <<>> /\ xyz_z = <<>>
  /\ xyz_result = [kind |-> "none"]

\* `let sym_seq = ...as_sequence().ok_or_else(..)?`
XyzSymSeq ==
  /\ xyz_pc = "symbols"
  /\ IF xyz_sym_val.t # "sequence"
       THEN /\ xyz_result' = InputErr("InvalidValue", "molecule.symbols", <<>>, 0, 0)
            /\ xyz_pc' = "done"
       ELSE /\ xyz_pc' = "symbol"
            /\ UNCHANGED xyz_result
  /\ UNCHANGED <<xyz_sym_val, xyz_geo_val, xyz_factor, xyz_symbols, xyz_x, xyz_y, xyz_z>>

\* One pass of `for sv in sym_seq`.
XyzSymbol ==
  /\ xyz_pc = "symbol"
  /\ Len(xyz_symbols) < Len(xyz_sym_val.items)
  /\ LET sv == xyz_sym_val.items[Len(xyz_symbols) + 1]
     IN IF sv.t # "string"
          THEN /\ xyz_result' = InputErr("InvalidValue", "molecule.symbols", <<>>, 0, 0)
               /\ xyz_pc' = "done"
               /\ UNCHANGED xyz_symbols
          ELSE IF ~input_normalize_element(sv.s).ok
          THEN /\ xyz_result' = InputErr("InvalidElement", "", sv.s, 0, 0)
               /\ xyz_pc' = "done"
               /\ UNCHANGED xyz_symbols
          ELSE /\ xyz_symbols' = Append(xyz_symbols, input_normalize_element(sv.s).value)
               /\ UNCHANGED <<xyz_pc, xyz_result>>
  /\ UNCHANGED <<xyz_sym_val, xyz_geo_val, xyz_factor, xyz_x, xyz_y, xyz_z>>

\* Faulty variant of XyzCount: only a count that is no multiple of three is
\* a mismatch.
XyzCountMultipleOfThree ==
  /\ xyz_pc = "symbol"
  /\ Len(xyz_symbols) = Len(xyz_sym_val.items)
  /\ IF xyz_geo_val.t # "sequence"
       THEN /\ xyz_result' = InputErr("InvalidValue", "molecule.geometry", <<>>, 0, 0)
            /\ xyz_pc' = "done"
       ELSE IF Len(xyz_geo_val.items) % 3 # 0
       THEN /\ xyz_result' = InputErr("CoordinateMismatch", "", <<>>,
                                      Len(xyz_symbols), Len(xyz_geo_val.items))
            /\ xyz_pc' = "done"
       ELSE /\ xyz_pc' = "chunk"
            /\ UNCHANGED xyz_result
  /\ UNCHANGED <<xyz_sym_val, xyz_geo_val, xyz_factor, xyz_symbols, xyz_x, xyz_y, xyz_z>>

\* `let geo_seq = ...?` and the comparison of n_coords with 3 * n_symbols
XyzCount ==
  /\ xyz_pc = "symbol"
  /\ Len(xyz_symbols) = Len(xyz_sym_val.items)
  /\ IF xyz_geo_val.t # "sequence"
       THEN /\ xyz_result' = InputErr("InvalidValue", "molecule.geometry", <<>>, 0, 0)
            /\ xyz_pc' = "done"
       ELSE IF Len(xyz_geo_val.items) # 3 * Len(xyz_symbols)
       THEN /\ xyz_result' = InputErr("CoordinateMismatch", "", <<>>,
                                      Len(xyz_symbols), Len(xyz_geo_val.items))
            /\ xyz_pc' = "done"
       ELSE /\ xyz_pc' = "chunk"
            /\ UNCHANGED xyz_result
  /\ UNCHANGED <<xyz_sym_val, xyz_geo_val, xyz_factor, xyz_symbols, xyz_x, xyz_y, xyz_z>>

\* One pass of `for chunk in geo_seq.chunks(3)`: the chunk starts after the
\* 3 * x.len() entries already taken.
XyzChunk ==
  /\ xyz_pc = "chunk"
  /\ 3 * Len(xyz_x) < Len(xyz_geo_val.items)
  /\ LET chunk == SubSeq(xyz_geo_val.items, 3 * Len(xyz_x) + 1, 3 * Len(xyz_x) + 3)
     IN IF \E k \in 1..3 : ~as_f64(chunk[k]).some
          THEN /\ xyz_result' = InputErr("InvalidValue", "molecule.geometry", <<>>, 0, 0)
               /\ xyz_pc' = "done"
               /\ UNCHANGED <<xyz_x, xyz_y, xyz_z>>
          ELSE /\ xyz_x' = Append(xyz_x, as_f64(chunk[1]).v * xyz_factor)
               /\ xyz_y' = Append(xyz_y, as_f64(chunk[2]).v * xyz_factor)
               /\ xyz_z' = Append(xyz_z, as_f64(chunk[3]).v * xyz_factor)
               /\ UNCHANGED <<xyz_pc, xyz_result>>
  /\ UNCHANGED <<xyz_sym_val, xyz_geo_val, xyz_factor, xyz_symbols>>

\* `Ok(CartesianGeometry { symbols, x, y, z })`
XyzReturn ==
  /\ xyz_pc = "chunk"
  /\ 3 * Len(xyz_x) >= Len(xyz_geo_val.items)
  /\ xyz_result' = [kind |-> "Ok",
                    value |-> [symbols |-> xyz_symbols, x |-> xyz_x, y |-> xyz_y,
                               z |-> xyz_z]]
  /\ xyz_pc' = "done"
  /\ UNCHANGED <<xyz_sym_val, xyz_geo_val, xyz_factor, xyz_symbols, xyz_x, xyz_y, xyz_z>>

(***************************************************************************)
(* input.rs: parse_zmatrix                                                 *)
(*                                                                         *)
(* A row of z_matrix is a record: whether it is a mapping, and the value   *)
(* under each of its seven keys, YAbsent for a key that is not there.      *)
(* Option<T> is a record with `some` and `v`.                              *)
(***************************************************************************)
YAbsent == [t |-> "absent", s |-> <<>>, v |-> 0, items |-> <<>>]

None == [some |-> FALSE, v |-> 0]
Some(v) == [some |-> TRUE, v |-> v]

\* izm: InvalidZMatrix { row, reason }
izm(row, reason) == InputErr("InvalidZMatrix", reason, <<>>, row, 0)

\* Result<T, InputError> of the helpers
Good(v) == [ok |-> TRUE, v |-> v, err |-> [kind |-> "none"]]
Bad(err) == [ok |-> FALSE, v |-> 0, err |-> err]

\* Faulty variant of zmat_ref_idx: the row itself may be referred to.
zmat_ref_idx_inclusive(val, field, row) ==
  IF ~as_i64(val).some THEN Bad(izm(row, "must be a positive integer"))
  ELSE IF as_i64(val).v <= 0 \/ as_i64(val).v > row + 1
    THEN Bad(izm(row, "is out of range"))
  ELSE Good(as_i64(val).v)

\* zmat_ref_idx on the value under `field`
zmat_ref_idx(val, field, row) ==
  IF ~as_i64(val).some THEN Bad(izm(row, "must be a positive integer"))
  ELSE IF as_i64(val).v <= 0 \/ as_i64(val).v > row
    THEN Bad(izm(row, "is out of range"))
  ELSE Good(as_i64(val).v)

zmat_bond_length(val, row, factor) ==
  IF ~as_f64(val).some THEN Bad(izm(row, "'bond_length' must be a number"))
  ELSE IF as_f64(val).v <= 0 THEN Bad(izm(row, "'bond_length' must be > 0"))
  ELSE Good(as_f64(val).v * factor)

zmat_angle(val, row) ==
  IF ~as_f64(val).some THEN Bad(izm(row, "'angle' must be a number"))
  ELSE IF as_f64(val).v <= 0 \/ as_f64(val).v >= 180
    THEN Bad(izm(row, "'angle' must satisfy 0 < angle < 180"))
  ELSE Good(as_f64(val).v)

zmat_dihedral(val, row) ==
  IF ~as_f64(val).some THEN Bad(izm(row, "'dihedral' must be a number"))
  ELSE IF as_f64(val).v < -180 \/ as_f64(val).v > 180
    THEN Bad(izm(row, "'dihedral' must satisfy -180 <= dihedral <= 180"))
  ELSE Good(as_f64(val).v)

\* check_distinct: bond_atom, angle_atom and dihedral_atom mutually distinct
check_distinct(row, ba, aa, da) ==
  IF aa.some /\ ba = aa.v
    THEN Bad(izm(row, "bond_atom and angle_atom must be distinct"))
  ELSE IF aa.some /\ da.some /\ ba = da.v
    THEN Bad(izm(row, "bond_atom and dihedral_atom must be distinct"))
  ELSE IF aa.some /\ da.some /\ aa.v = da.v
    THEN Bad(izm(row, "angle_atom and dihedral_atom must be distinct"))
  ELSE Good(0)

\* The error of the first step that failed, the steps being in the order
\* of their `?`.
FirstErr(steps) ==
  steps[CHOOSE k \in 1..Len(steps) :
          ~steps[k].ok /\ \A j \in 1..(k - 1) : steps[j].ok].err

AllOk(steps) == \A k \in 1..Len(steps) : steps[k].ok

\* What one row pushes to the seven vectors.
Pushed(sym, ba, bl, aa, ang, da, dih) ==
  [kind |-> "Pushed", symbol |-> sym, bond_atom |-> ba, bond_length_bohr |-> bl,
   angle_atom |-> aa, angle_deg |-> ang, dihedral_atom |-> da, dihedral_deg |-> dih]

Has(val) == val.t # "absent"

\* One pass of the loop body on row i: the error returned, or what is
\* pushed.
zmat_row(i, row, factor) ==
  LET has_bond_atom == Has(row.bond_atom)
      has_bond_length == Has(row.bond_length)
      has_angle_atom == Has(row.angle_atom)
      has_angle == Has(row.angle)
      has_dihedral_atom == Has(row.dihedral_atom)
      has_dihedral == Has(row.dihedral)
      sym == input_normalize_element(row.symbol.s).value
      ba == zmat_ref_idx(row.bond_atom, "bond_atom", i)
      bl == zmat_bond_length(row.bond_length, i, factor)
      aa == zmat_ref_idx(row.angle_atom, "angle_atom", i)
      ang == zmat_angle(row.angle, i)
      da == zmat_ref_idx(row.dihedral_atom, "dihedral_atom", i)
      dih == zmat_dihedral(row.dihedral, i)
  IN
  IF ~row.mapping THEN izm(i, "each z_matrix entry must be a mapping")
  ELSE IF ~Has(row.symbol) THEN izm(i, "missing required field 'symbol'")
  ELSE IF row.symbol.t # "string" THEN izm(i, "'symbol' must be a string")
  ELSE IF ~input_normalize_element(row.symbol.s).ok
    THEN InputErr("InvalidElement", "", row.symbol.s, 0, 0)
  ELSE IF i = 0 THEN
    IF has_bond_atom \/ has_bond_length \/ has_angle_atom
         \/ has_angle \/ has_dihedral_atom \/ has_dihedral
      THEN izm(0, "row 0 must only contain 'symbol'")
      ELSE Pushed(sym, None, None, None, None, None, None)
  ELSE IF i = 1 THEN
    IF has_angle_atom \/ has_angle \/ has_dihedral_atom \/ has_dihedral
      THEN izm(1, "row 1 must not contain angle or dihedral fields")
    ELSE IF ~has_bond_atom THEN izm(1, "missing required field 'bond_atom'")
    ELSE IF ~has_bond_length THEN izm(1, "missing required field 'bond_length'")
    ELSE IF ~AllOk(<<ba, bl>>) THEN FirstErr(<<ba, bl>>)
    ELSE Pushed(sym, Some(ba.v), Some(bl.v), None, None, None, None)
  ELSE IF i = 2 THEN
    IF has_dihedral_atom \/ has_dihedral
      THEN izm(2, "row 2 must not contain dihedral fields")
    ELSE IF ~has_bond_atom THEN izm(2, "missing required field 'bond_atom'")
    ELSE IF ~has_bond_length THEN izm(2, "missing required field 'bond_length'")
    ELSE IF ~has_angle_atom THEN izm(2, "missing required field 'angle_atom'")
    ELSE IF ~has_angle THEN izm(2, "missing required field 'angle'")
    ELSE LET steps == <<ba, bl, aa, ang, check_distinct(2, ba.v, Some(aa.v), None)>>
         IN IF ~AllOk(steps) THEN FirstErr(steps)
            ELSE Pushed(sym, Some(ba.v), Some(bl.v), Some(aa.v), Some(ang.v), None, None)
  ELSE
    IF ~has_bond_atom THEN izm(i, "missing required field 'bond_atom'")
    ELSE IF ~has_bond_length THEN izm(i, "missing required field 'bond_length'")
    ELSE IF ~has_angle_atom THEN izm(i, "missing required field 'angle_atom'")
    ELSE IF ~has_angle THEN izm(i, "missing required field 'angle'")
    ELSE IF ~has_dihedral_atom THEN izm(i, "missing required field 'dihedral_atom'")
    ELSE IF ~has_dihedral THEN izm(i, "missing required field 'dihedral'")
    ELSE LET steps == <<ba, bl, aa, ang, da, dih,
                        check_distinct(i, ba.v, Some(aa.v), Some(da.v))>>
         IN IF ~AllOk(steps) THEN FirstErr(steps)
            ELSE Pushed(sym, Some(ba.v), Some(bl.v), Some(aa.v), Some(ang.v),
                        Some(da.v), Some(dih.v))

\* The seven vectors before the first row.
EmptyGeom ==
  [symbols |-> <<>>, bond_atoms |-> <<>>, bond_lengths_bohr |-> <<>>,
   angle_atoms |-> <<>>, angles_deg |-> <<>>, dihedral_atoms |-> <<>>,
   dihedrals_deg |-> <<>>]

ZmIdle ==
  /\ zm_pc = "idle"
  /\ zm_val = YNull /\ zm_factor = 1 /\ zm_i = 0
  /\ zm_geom = EmptyGeom
  /\ zm_result = [kind |-> "none"]

\* Row i of a Z-matrix with the reference atoms refs = <<bond, angle,
\* dihedral>>: the fields row i must have, and no other.
Row(i, symbol, refs) ==
  [mapping |-> TRUE, symbol |-> symbol,
   bond_atom |-> IF i >= 1 THEN refs[1] ELSE YAbsent,
   bond_length |-> IF i >= 1 THEN YFloat(1) ELSE YAbsent,
   angle_atom |-> IF i >= 2 THEN refs[2] ELSE YAbsent,
   angle |-> IF i >= 2 THEN YInt(90) ELSE YAbsent,
   dihedral_atom |-> IF i >= 3 THEN refs[3] ELSE YAbsent,
   dihedral |-> IF i >= 3 THEN YFloat(-180) ELSE YAbsent]

\* Rows that row i accepts: it refers to the rows just before it, or to
\* the first rows.
ValidRows(i) ==
  { Row(i, YStr(<<"h">>), refs) :
      refs \in { <<YInt(i), YInt(i - 1), YInt(i - 2)>>, <<YInt(1), YInt(2), YInt(3)>> } }

\* The values tried as a reference atom of row i.
RefVals(i) == { YInt(v) : v \in 0..(i + 1) } \cup { YFloat(1) }

\* Row i with every choice of reference atoms.
RefRows(i) ==
  { Row(i, YStr(<<"h", "E">>), <<a, b, c>>) : a, b, c \in RefVals(i) }

\* Row i referring to itself throughout.
SelfRow(i) == Row(i, YStr(<<"O">>), <<YInt(i + 1), YInt(i + 1), YInt(i + 1)>>)

\* Row i with something else wrong or out of place, its reference atoms
\* being good ones or its own index.
DefectRows(i) ==
  UNION { { [base EXCEPT !.mapping = FALSE],
            [base EXCEPT !.symbol = YAbsent],
            [base EXCEPT !.symbol = YInt(1)],
            [base EXCEPT !.symbol = YStr(<<"z", "z">>)],
            [base EXCEPT !.bond_atom = YAbsent],
            [base EXCEPT !.bond_atom = YNull],
            [base EXCEPT !.bond_length = YAbsent],
            [base EXCEPT !.bond_length = YFloat(0)],
            [base EXCEPT !.angle_atom = YInt(1)],
            [base EXCEPT !.angle = YInt(180)],
            [base EXCEPT !.dihedral_atom = YInt(1)],
            [base EXCEPT !.dihedral = YInt(181)] } :
          base \in ValidRows(i) \cup {SelfRow(i)} }

\* The first n rows of an acceptable Z-matrix.
Prefixes(n) ==
  { f \in [1..n -> UNION { ValidRows(k) : k \in 0..(MaxRows - 1) }] :
      \A k \in 1..n : f[k] \in ValidRows(k - 1) }

\* The rows after the row under test: none, or one row m, good or not.
Tails(m) ==
  IF m >= MaxRows THEN { <<>> }
  ELSE { <<>> } \cup { <<r>> : r \in ValidRows(m) \cup {SelfRow(m)} }

\* The values tried under "z_matrix": not a sequence, no rows, or good rows
\* followed by one row of any kind and at most one row more.
ZMatrixValues ==
  { YNull, YSeq(<<>>) } \cup
  UNION { { YSeq(p \o <<t>> \o q) :
              p \in Prefixes(n), t \in RefRows(n) \cup DefectRows(n), q \in Tails(n + 1) } :
          n \in 0..(MaxRows - 1) }

ZmInit ==
  /\ zm_pc = "rows"
  /\ zm_val \in ZMatrixValues
  /\ zm_factor \in Factors
  /\ zm_i = 0
  /\ zm_geom = EmptyGeom
  /\ zm_result = [kind |-> "none"]

\* `let rows = ...as_sequence()...?` and `if rows.is_empty()`
ZmRows ==
  /\ zm_pc = "rows"
  /\ IF zm_val.t # "sequence"
       THEN /\ zm_result' = InputErr("InvalidValue", "molecule.z_matrix", <<>>, 0, 0)
            /\ zm_pc' = "done"
       ELSE IF zm_val.items = <<>>
       THEN /\ zm_result' = InputErr("MissingField", "molecule.z_matrix", <<>>, 0, 0)
            /\ zm_pc' = "done"
       ELSE /\ zm_pc' = "row"
            /\ UNCHANGED zm_result
  /\ UNCHANGED <<zm_val, zm_factor, zm_i, zm_geom>>

\* One pass of `for (i, row_val) in rows.iter().enumerate()`
ZmRow ==
  /\ zm_pc = "row"
  /\ zm_i < Len(zm_val.items)
  /\ LET r == zmat_row(zm_i, zm_val.items[zm_i + 1], zm_factor)
     IN IF r.kind = "Pushed"
          THEN /\ zm_geom' =
                    [symbols |-> Append(zm_geom.symbols, r.symbol),
                     bond_atoms |-> Append(zm_geom.bond_atoms, r.bond_atom),
                     bond_lengths_bohr |->
                       Append(zm_geom.bond_lengths_bohr, r.bond_length_bohr),
                     angle_atoms |-> Append(zm_geom.angle_atoms, r.angle_atom),
                     angles_deg |-> Append(zm_geom.angles_deg, r.angle_deg),
                     dihedral_atoms |-> Append(zm_geom.dihedral_atoms, r.dihedral_atom),
                     dihedrals_deg |-> Append(zm_geom.dihedrals_deg, r.dihedral_deg)]
               /\ zm_i' = zm_i + 1
               /\ UNCHANGED <<zm_pc, zm_result>>
          ELSE /\ zm_result' = r
               /\ zm_pc' = "done"
               /\ UNCHANGED <<zm_i, zm_geom>>
  /\ UNCHANGED <<zm_val, zm_factor>>

\* `Ok(ZMatrixGeometry { .. })`
ZmReturn ==
  /\ zm_pc = "row"
  /\ zm_i = Len(zm_val.items)
  /\ zm_result' = [kind |-> "Ok", value |-> zm_geom]
  /\ zm_pc' = "done"
  /\ UNCHANGED <<zm_val, zm_factor, zm_i, zm_geom>>


(***************************************************************************)
(* Specifications                                                          *)
(***************************************************************************)
Init == BasisInit /\ CcLocalsIdle /\ GuessIdle /\ FetchIdle /\ ParseIdle /\ XyzIdle /\ ZmIdle

Next ==
  \/ LoadSymbol /\ UNCHANGED <<cc_vars, guess_vars, fetch_vars, parse_vars,
                  xyz_vars, zm_vars>>
  \/ BeginEmit /\ UNCHANGED <<cc_vars, guess_vars, fetch_vars, parse_vars,
                  xyz_vars, zm_vars>>
  \/ EmitShellStep /\ UNCHANGED <<cc_vars, guess_vars, fetch_vars, parse_vars,
                  xyz_vars, zm_vars>>
  \/ NextAtom /\ UNCHANGED <<cc_vars, guess_vars, fetch_vars, parse_vars,
                  xyz_vars, zm_vars>>
  \/ ReturnOk /\ UNCHANGED <<cc_vars, guess_vars, fetch_vars, parse_vars,
                  xyz_vars, zm_vars>>

Spec == Init /\ [][Next]_vars

InitCart == CcInit /\ BasisIdle /\ GuessIdle /\ FetchIdle /\ ParseIdle /\ XyzIdle /\ ZmIdle

NextCart ==
  \/ CcAlloc /\ UNCHANGED <<basis_vars, guess_vars, fetch_vars, parse_vars,
                  xyz_vars, zm_vars>>
  \/ CcInner /\ UNCHANGED <<basis_vars, guess_vars, fetch_vars, parse_vars,
                  xyz_vars, zm_vars>>
  \/ CcOuter /\ UNCHANGED <<basis_vars, guess_vars, fetch_vars, parse_vars,
                  xyz_vars, zm_vars>>

SpecCart == InitCart /\ [][NextCart]_vars

InitGuess == GuessInit /\ BasisIdle /\ CcIdle /\ FetchIdle /\ ParseIdle /\ XyzIdle /\ ZmIdle

NextGuess ==
  \/ CheckDimension /\ UNCHANGED <<basis_vars, cc_vars, fetch_vars, parse_vars,
                  xyz_vars, zm_vars>>
  \/ CheckElectrons /\ UNCHANGED <<basis_vars, cc_vars, fetch_vars, parse_vars,
                  xyz_vars, zm_vars>>
  \/ CheckDegenerate /\ UNCHANGED <<basis_vars, cc_vars, fetch_vars, parse_vars,
                  xyz_vars, zm_vars>>
  \/ FormHCore /\ UNCHANGED <<basis_vars, cc_vars, fetch_vars, parse_vars,
                  xyz_vars, zm_vars>>
  \/ DecomposeS /\ UNCHANGED <<basis_vars, cc_vars, fetch_vars, parse_vars,
                  xyz_vars, zm_vars>>
  \/ CheckPositive /\ UNCHANGED <<basis_vars, cc_vars, fetch_vars, parse_vars,
                  xyz_vars, zm_vars>>
  \/ BuildX /\ UNCHANGED <<basis_vars, cc_vars, fetch_vars, parse_vars,
                  xyz_vars, zm_vars>>
  \/ DecomposeH /\ UNCHANGED <<basis_vars, cc_vars, fetch_vars, parse_vars,
                  xyz_vars, zm_vars>>
  \/ SortAndReturn /\ UNCHANGED <<basis_vars, cc_vars, fetch_vars, parse_vars,
                  xyz_vars, zm_vars>>

SpecGuess == InitGuess /\ [][NextGuess]_vars

InitFetch == FetchInit /\ BasisIdle /\ CcIdle /\ GuessIdle /\ ParseIdle /\ XyzIdle /\ ZmIdle

NextFetch ==
  \/ FetchValidate /\ UNCHANGED <<basis_vars, cc_vars, guess_vars, parse_vars,
                  xyz_vars, zm_vars>>
  \/ FetchCheckCache /\ UNCHANGED <<basis_vars, cc_vars, guess_vars, parse_vars,
                  xyz_vars, zm_vars>>
  \/ FetchGet /\ UNCHANGED <<basis_vars, cc_vars, guess_vars, parse_vars,
                  xyz_vars, zm_vars>>
  \/ FetchWrite /\ UNCHANGED <<basis_vars, cc_vars, guess_vars, parse_vars,
                  xyz_vars, zm_vars>>
  \/ FetchCall /\ UNCHANGED <<basis_vars, cc_vars, guess_vars, parse_vars,
                  xyz_vars, zm_vars>>
  \/ LoadParse /\ UNCHANGED <<basis_vars, cc_vars, guess_vars, parse_vars,
                  xyz_vars, zm_vars>>

SpecFetch == InitFetch /\ [][NextFetch]_vars

InitParse == ParseInit /\ BasisIdle /\ CcIdle /\ GuessIdle /\ FetchIdle /\ XyzIdle /\ ZmIdle

NextParse ==
  \/ ParseHeader /\ UNCHANGED <<basis_vars, cc_vars, guess_vars, fetch_vars,
                  xyz_vars, zm_vars>>
  \/ ParseEntry /\ UNCHANGED <<basis_vars, cc_vars, guess_vars, fetch_vars,
                  xyz_vars, zm_vars>>
  \/ ParseReturn /\ UNCHANGED <<basis_vars, cc_vars, guess_vars, fetch_vars,
                  xyz_vars, zm_vars>>

SpecParse == InitParse /\ [][NextParse]_vars

InitXyz == XyzInit /\ BasisIdle /\ CcIdle /\ GuessIdle /\ FetchIdle /\ ParseIdle /\ ZmIdle

NextXyz ==
  \/ XyzSymSeq /\ UNCHANGED <<basis_vars, cc_vars, guess_vars, fetch_vars, parse_vars,
                  zm_vars>>
  \/ XyzSymbol /\ UNCHANGED <<basis_vars, cc_vars, guess_vars, fetch_vars, parse_vars,
                  zm_vars>>
  \/ XyzCount /\ UNCHANGED <<basis_vars, cc_vars, guess_vars, fetch_vars, parse_vars,
                  zm_vars>>
  \/ XyzChunk /\ UNCHANGED <<basis_vars, cc_vars, guess_vars, fetch_vars, parse_vars,
                  zm_vars>>
  \/ XyzReturn /\ UNCHANGED <<basis_vars, cc_vars, guess_vars, fetch_vars, parse_vars,
                  zm_vars>>

SpecXyz == InitXyz /\ [][NextXyz]_vars


InitZm == ZmInit /\ BasisIdle /\ CcIdle /\ GuessIdle /\ FetchIdle /\ ParseIdle /\ XyzIdle

NextZm ==
  \/ ZmRows /\ UNCHANGED <<basis_vars, cc_vars, guess_vars, fetch_vars, parse_vars,
                  xyz_vars>>
  \/ ZmRow /\ UNCHANGED <<basis_vars, cc_vars, guess_vars, fetch_vars, parse_vars,
                  xyz_vars>>
  \/ ZmReturn /\ UNCHANGED <<basis_vars, cc_vars, guess_vars, fetch_vars, parse_vars,
                  xyz_vars>>

SpecZm == InitZm /\ [][NextZm]_vars

(***************************************************************************)
(* Properties of init_basis_impl (specification Spec)                      *)
(***************************************************************************)
\* The element symbols of a geometry, and the 1-based positions p < q.
UniqueSymbols(g) == { g.symbols[p] : p \in 1..Len(g.symbols) }

Returned == pc = "done"
ReturnedOk == pc = "done" /\ result.kind = "Ok"
ReturnedErr == pc = "done" /\ result.kind = "Err"

\* C1 as stated: whenever init_basis_impl has returned, the lookup has been
\* invoked exactly k times, k the number of unique symbols of the geometry.
C1_ExactlyKAlways ==
  Returned => Len(load_calls) = Cardinality(UniqueSymbols(geometry))

\* C1 amended: a call whose lookups all succeed has invoked the lookup
\* exactly k times, once per unique symbol, whatever the atom count; a call
\* that failed has invoked it at most k times; no symbol is looked up twice.
C1_LookupOncePerSymbol ==
  /\ \A p, q \in 1..Len(load_calls) : p # q => load_calls[p] # load_calls[q]
  /\ { load_calls[p] : p \in 1..Len(load_calls) } \subseteq UniqueSymbols(geometry)
  /\ ReturnedOk => Len(load_calls) = Cardinality(UniqueSymbols(geometry))
  /\ ReturnedErr => Len(load_calls) <= Cardinality(UniqueSymbols(geometry))

\* Three atoms of two elements were built with two lookups.
C1_Witness ==
  /\ ReturnedOk
  /\ Len(geometry.symbols) = 3
  /\ Cardinality(UniqueSymbols(geometry)) = 2
  /\ Len(load_calls) = 2

\* C2: in a returned AoBasis atom_index never decreases along the arrays:
\* every function of atom i lies before every function of atom j > i.
C2_AtomMajor ==
  ReturnedOk =>
    \A p, q \in 1..Len(result.value.atom_index) :
      p < q => result.value.atom_index[p] <= result.value.atom_index[q]

\* A returned basis over atoms X, Y, X of two elements, each atom owning
\* functions.
C2_Witness ==
  /\ ReturnedOk
  /\ Len(geometry.symbols) = 3
  /\ geometry.symbols[1] = geometry.symbols[3]
  /\ geometry.symbols[1] # geometry.symbols[2]
  /\ { result.value.atom_index[p] : p \in 1..Len(result.value.atom_index) } = {0, 1, 2}

\* C4: n_basis is the sum over atoms and their element's shells of
\* (l+1)(l+2)/2, and n_shells the number of shells summed over atoms.
RECURSIVE SumNCart(_, _)
SumNCart(shells, k) ==
  IF k = 0 THEN 0
  ELSE SumNCart(shells, k - 1)
         + ((shells[k].angular_momentum + 1) * (shells[k].angular_momentum + 2)) \div 2

ShellsOfAtom(p) == load_basis[geometry.symbols[p]].value.shells

RECURSIVE ExpectedNBasis(_)
ExpectedNBasis(k) ==
  IF k = 0 THEN 0
  ELSE ExpectedNBasis(k - 1) + SumNCart(ShellsOfAtom(k), Len(ShellsOfAtom(k)))

RECURSIVE ExpectedNShells(_)
ExpectedNShells(k) ==
  IF k = 0 THEN 0 ELSE ExpectedNShells(k - 1) + Len(ShellsOfAtom(k))

C4_Counts ==
  ReturnedOk =>
    /\ result.value.n_basis = ExpectedNBasis(Len(geometry.symbols))
    /\ result.value.n_shells = ExpectedNShells(Len(geometry.symbols))
    /\ result.value.n_basis = Len(result.value.atom_index)
    /\ result.value.n_shells = Len(result.value.prim_offset)

\* Two atoms share an element that has a p shell, a third has a d shell.
C4_Witness ==
  /\ ReturnedOk
  /\ Len(geometry.symbols) = 3
  /\ geometry.symbols[1] = geometry.symbols[2]
  /\ geometry.symbols[1] # geometry.symbols[3]
  /\ result.value.n_shells = 8
  /\ result.value.n_basis = 17

\* C5: prim_offset starts at 0 and each shell's block ends where the next
\* begins.
C5_PrimContiguous ==
  ReturnedOk =>
    LET po == result.value.prim_offset
        np == result.value.n_primitives
    IN /\ Len(po) = Len(np)
       /\ Len(po) >= 1 => po[1] = 0
       /\ \A i \in 1..(Len(po) - 1) : po[i] + np[i] = po[i + 1]

\* A returned basis with shells of 3, 2 and 1 primitives in a row.
C5_Witness ==
  /\ ReturnedOk
  /\ Len(result.value.n_primitives) >= 5
  /\ SubSeq(result.value.n_primitives, 1, 3) = <<3, 2, 1>>
  /\ result.value.prim_offset[4] = 6

\* C6: the centre of every basis function is the position of the atom its
\* atom_index names.
C6_Centers ==
  ReturnedOk =>
    \A f \in 1..result.value.n_basis :
      /\ result.value.center_x[f] = geometry.x[result.value.atom_index[f] + 1]
      /\ result.value.center_y[f] = geometry.y[result.value.atom_index[f] + 1]
      /\ result.value.center_z[f] = geometry.z[result.value.atom_index[f] + 1]

\* A returned basis of three atoms whose second atom sits on another point
\* than the first and the third.
C6_Witness ==
  /\ ReturnedOk
  /\ result.value.n_basis >= 3
  /\ result.value.atom_index[1] = 0
  /\ result.value.atom_index[result.value.n_basis] = 2
  /\ \E f \in 1..result.value.n_basis :
       /\ result.value.atom_index[f] = 1
       /\ result.value.center_x[f] # result.value.center_x[1]
       /\ result.value.center_x[f] # result.value.center_x[result.value.n_basis]

\* C7: when the lookup fails for some symbol of the geometry, the call
\* returns BasisLoad naming the first failing symbol in first-occurrence
\* order and wrapping its load error; no AoBasis is returned and none is
\* even begun.
Failing == { p \in 1..Len(geometry.symbols) : ~load_basis[geometry.symbols[p]].ok }

FirstFailing ==
  geometry.symbols[CHOOSE p \in Failing : \A q \in Failing : p <= q]

C7_FailureNamesElement ==
  Failing # {} =>
    /\ pc # "emit"
    /\ ~emitted
    /\ Returned =>
         /\ result.kind = "Err"
         /\ result.error.variant = "BasisLoad"
         /\ result.error.element = FirstFailing
         /\ result.error.source = load_basis[FirstFailing].error

\* A lookup succeeded, the next failed and is the one reported, and a
\* further failing symbol follows it.
C7_Witness ==
  /\ ReturnedErr
  /\ Len(geometry.symbols) = 3
  /\ Cardinality(Failing) = 2
  /\ Len(load_calls) = 2
  /\ result.error.element = geometry.symbols[2]
  /\ geometry.symbols[3] # geometry.symbols[2]

\* C8: for a geometry without atoms the call succeeds with both counts 0
\* and every array empty, and the lookup is never invoked.
C8_EmptyGeometry ==
  Len(geometry.symbols) = 0 =>
    /\ load_calls = <<>>
    /\ Returned =>
         /\ result.kind = "Ok"
         /\ result.value.n_basis = 0
         /\ result.value.n_shells = 0
         /\ \A fld \in {"center_x", "center_y", "center_z", "lx", "ly", "lz",
                        "shell_index", "atom_index", "prim_offset",
                        "n_primitives", "exponents", "coefficients"} :
              result.value[fld] = <<>>

C8_Witness ==
  /\ Returned
  /\ Len(geometry.symbols) = 0
  /\ result.kind = "Ok"

(***************************************************************************)
(* Properties of cartesian_components (specification SpecCart)             *)
(***************************************************************************)
\* (lx, ly) of a strictly precedes (lx, ly) of b in descending order.
LexGreater(a, b) == a[1] > b[1] \/ (a[1] = b[1] /\ a[2] > b[2])

\* The call is over: it returned or it panicked.
CcOver == cc_pc \in {"done", "panic"}

\* What C3 says of a call that returned: (l+1)(l+2)/2 triples of naturals
\* summing to l, in strictly descending (lx, ly) order (hence none repeated,
\* hence all of them: lx from l down to 0 and, per lx, ly from l-lx down to 0).
CanonicalOrder ==
  /\ Len(cc_result) = ((cc_l + 1) * (cc_l + 2)) \div 2
  /\ \A k \in 1..Len(cc_result) :
       /\ cc_result[k][1] \in 0..cc_l
       /\ cc_result[k][2] \in 0..cc_l
       /\ cc_result[k][3] \in 0..cc_l
       /\ cc_result[k][1] + cc_result[k][2] + cc_result[k][3] = cc_l
  /\ \A k \in 1..(Len(cc_result) - 1) : LexGreater(cc_result[k], cc_result[k + 1])
  /\ cc_l = 0 => cc_result = << <<0, 0, 0>> >>
  /\ cc_l = 1 => cc_result = << <<1, 0, 0>>, <<0, 1, 0>>, <<0, 0, 1>> >>
  /\ cartesian_components(cc_l) = [kind |-> "ok", value |-> cc_result]

\* C3: for every angular momentum l, cartesian_components(l) returns exactly
\* (l+1)(l+2)/2 triples summing to l, none repeated, in the canonical order.
C3_CanonicalOrder == CcOver => (cc_pc = "done" /\ CanonicalOrder)

\* What holds of C3: a call that returns, returns the triples in the
\* canonical order; and a call panics only in the build that checks
\* overflow and only for an l of WideL or more.
C3_CanonicalOrderIfReturned ==
  /\ cc_pc = "done" => CanonicalOrder
  /\ cc_pc = "panic" => (overflow_checks /\ cc_l >= WideL)
  /\ (CcOver /\ cc_l < WideL) => cc_pc = "done"

\* cartesian_components(65535) panicked in the build that checks overflow.
C3_WitnessPanic ==
  /\ cc_pc = "panic"
  /\ cc_l = WideL
  /\ n_cart(u32(cc_l)) = [overflow |-> "multiply", value |-> 2^15]
  /\ n_cart(U32(Half - 1, Half - 1)) = [overflow |-> "add", value |-> 0]
  /\ n_cart(u32(WideL - 1)).overflow = "none"

\* The d shell's six components.
C3_Witness ==
  /\ cc_pc = "done"
  /\ cc_l = 2
  /\ cc_result = << <<2, 0, 0>>, <<1, 1, 0>>, <<1, 0, 1>>,
                    <<0, 2, 0>>, <<0, 1, 1>>, <<0, 0, 2>> >>

(***************************************************************************)
(* Properties of guess_hcore (specification SpecGuess)                     *)
(***************************************************************************)
GuessOk == g_pc = "done" /\ g_result.kind = "Ok"

\* The orbital energy of column j (1-based position) of the returned C.
ColumnEnergy(j) == energies[g_result.cols[j] + 1]

\* C10: on success with n > 0 and real (non-NaN) eigenvalues of H', C is
\* n x n, its columns are a permutation of the eigenvector columns, and the
\* eigenvalue of column j never exceeds that of column j+1, in whatever
\* order the decomposition reported the eigenvalues.
C10_ColumnsAscending ==
  (GuessOk /\ n_of > 0 /\ \A j \in 1..Len(energies) : ~energies[j].nan) =>
    /\ g_result.nrows = n_of /\ g_result.ncols = n_of
    /\ Len(g_result.cols) = n_of
    /\ { g_result.cols[j] : j \in 1..n_of } = 0..(n_of - 1)
    /\ \A j \in 1..(n_of - 1) : ColumnEnergy(j).v <= ColumnEnergy(j + 1).v

\* The decomposition reported 3, -2, 0; C's columns are its columns 1, 2, 0.
C10_Witness ==
  /\ GuessOk
  /\ energies = <<Num(3), Num(-2), Num(0)>>
  /\ g_result.cols = <<1, 2, 0>>


\* S, T and V are all n x n for one n.
ShapesConsistent ==
  s_shape[1] = s_shape[2] /\ t_shape = s_shape /\ v_shape = s_shape

GuessDone == g_pc = "done"
GuessErr(variant) ==
  g_pc = "done" /\ g_result.kind = "Err" /\ g_result.error.variant = variant

\* C11: when the shapes are inconsistent and n_alpha or n_beta exceeds the
\* side length of S as well, the result is DimensionMismatch, never
\* TooManyElectrons.
C11_MismatchBeforeElectrons ==
  (GuessDone /\ ~ShapesConsistent
     /\ (n_alpha > s_shape[1] \/ n_beta > s_shape[1])) =>
    GuessErr("DimensionMismatch")

\* S is 3 x 3, T is 2 x 2, and both counts exceed 3.
C11_Witness ==
  /\ GuessErr("DimensionMismatch")
  /\ s_shape = <<3, 3>> /\ t_shape = <<2, 2>> /\ v_shape = <<3, 3>>
  /\ n_alpha > 3 /\ n_beta > 3

\* C12: DimensionMismatch is returned exactly when S, T, V are not all
\* square of one common side, and it carries the three observed shapes.
C12_MismatchExactly ==
  GuessDone =>
    /\ GuessErr("DimensionMismatch") <=> ~ShapesConsistent
    /\ GuessErr("DimensionMismatch") =>
         /\ g_result.error.s_shape = s_shape
         /\ g_result.error.t_shape = t_shape
         /\ g_result.error.v_shape = v_shape

\* Only V differs, being square of another side; the shapes are reported.
C12_Witness ==
  /\ GuessErr("DimensionMismatch")
  /\ s_shape = <<2, 2>> /\ t_shape = <<2, 2>> /\ v_shape = <<3, 3>>
  /\ g_result.error.v_shape = <<3, 3>>

\* C13: with consistent n x n shapes TooManyElectrons{n_alpha, n_beta, n}
\* is returned exactly when n_alpha > n or n_beta > n; counts equal to n,
\* zero counts and unequal counts pass the check.
C13_ElectronsExactly ==
  (GuessDone /\ ShapesConsistent) =>
    /\ GuessErr("TooManyElectrons") <=> (n_alpha > s_shape[1] \/ n_beta > s_shape[1])
    /\ GuessErr("TooManyElectrons") =>
         /\ g_result.error.n_alpha = n_alpha
         /\ g_result.error.n_beta = n_beta
         /\ g_result.error.n_basis = s_shape[1]

\* A fully occupied alpha count with no beta electrons was accepted.
C13_Witness ==
  /\ GuessOk
  /\ s_shape = <<3, 3>>
  /\ n_alpha = 3 /\ n_beta = 0

\* C14 as stated: for S, T, V all 0 x 0 the call returns a 0 x 0 matrix.
C14_EmptyAlwaysOk ==
  (GuessDone /\ s_shape = <<0, 0>> /\ t_shape = <<0, 0>> /\ v_shape = <<0, 0>>) =>
    /\ g_result.kind = "Ok"
    /\ g_result.nrows = 0 /\ g_result.ncols = 0

\* C14 amended: for S, T, V all 0 x 0 and n_alpha = n_beta = 0 the call
\* returns a 0 x 0 matrix; and for S, T, V all 0 x 0, whatever the counts,
\* H = T + V is never formed and nothing is decomposed.
C14_EmptyBasis ==
  (s_shape = <<0, 0>> /\ t_shape = <<0, 0>> /\ v_shape = <<0, 0>>) =>
    /\ g_events = <<>>
    /\ lambdas_s = <<>> /\ energies = <<>>
    /\ g_pc \in {"dimension", "electrons", "degenerate", "done"}
    /\ (GuessDone /\ n_alpha = 0 /\ n_beta = 0) =>
         /\ g_result.kind = "Ok"
         /\ g_result.nrows = 0 /\ g_result.ncols = 0

C14_Witness ==
  /\ GuessOk
  /\ s_shape = <<0, 0>> /\ t_shape = <<0, 0>> /\ v_shape = <<0, 0>>
  /\ g_result.nrows = 0 /\ g_result.ncols = 0
  /\ g_events = <<>>

\* C15: with consistent shapes, admissible counts and n > 0, the call
\* returns SingularOverlap whenever an eigenvalue of S is <= 0 (zero
\* included) and never a matrix then; when the eigenvalues of S are real
\* numbers a matrix is returned only if all of them are > 0.
C15_SingularOverlap ==
  (GuessDone /\ ShapesConsistent /\ s_shape[1] > 0
     /\ n_alpha <= s_shape[1] /\ n_beta <= s_shape[1]) =>
    /\ (\E j \in 1..Len(lambdas_s) : ~lambdas_s[j].nan /\ lambdas_s[j].v <= 0)
         => GuessErr("SingularOverlap")
    /\ GuessErr("SingularOverlap")
         => \E j \in 1..Len(lambdas_s) : ~lambdas_s[j].nan /\ lambdas_s[j].v <= 0
    /\ (g_result.kind = "Ok" /\ \A j \in 1..Len(lambdas_s) : ~lambdas_s[j].nan)
         => /\ Len(lambdas_s) = s_shape[1]
            /\ \A j \in 1..Len(lambdas_s) : lambdas_s[j].v > 0
            /\ \A j \in 1..Len(x_cols) : x_cols[j].scaled_by.v > 0

\* S has the eigenvalues 1, 0, 4: the exact zero is refused.
C15_Witness ==
  /\ GuessErr("SingularOverlap")
  /\ lambdas_s = <<Num(1), Num(0), Num(4)>>


\* The shells of atoms 1..k in emission order.
RECURSIVE AllShells(_)
AllShells(k) ==
  IF k = 0 THEN <<>> ELSE AllShells(k - 1) \o ShellsOfAtom(k)

RECURSIVE SumSeq(_, _)
SumSeq(q, k) == IF k = 0 THEN 0 ELSE SumSeq(q, k - 1) + q[k]

\* C16: the flat arrays exponents and coefficients both have length
\* sum(n_primitives), and the slice [prim_offset[i], prim_offset[i] +
\* n_primitives[i]) of each is the exponent list, resp. the coefficient
\* list, of shell i.
C16_PrimitiveSlices ==
  ReturnedOk =>
    LET b == result.value
        shells == AllShells(Len(geometry.symbols))
        total == SumSeq(b.n_primitives, Len(b.n_primitives))
    IN /\ Len(b.exponents) = total
       /\ Len(b.coefficients) = total
       /\ Len(b.prim_offset) = Len(shells)
       /\ Len(b.n_primitives) = Len(shells)
       /\ \A i \in 1..Len(shells) :
            /\ b.prim_offset[i] + b.n_primitives[i] <= total
            /\ SubSeq(b.exponents, b.prim_offset[i] + 1,
                      b.prim_offset[i] + b.n_primitives[i]) = shells[i].exponents
            /\ SubSeq(b.coefficients, b.prim_offset[i] + 1,
                      b.prim_offset[i] + b.n_primitives[i]) = shells[i].coefficients

\* A returned basis whose second shell has the two primitives 34, 35 with
\* coefficients 44, 45 and starts behind a shell of three primitives.
C16_Witness ==
  /\ ReturnedOk
  /\ Len(result.value.prim_offset) >= 3
  /\ result.value.prim_offset[2] = 3
  /\ SubSeq(result.value.exponents, 4, 5) = <<34, 35>>
  /\ SubSeq(result.value.coefficients, 4, 5) = <<44, 45>>
  /\ Len(result.value.exponents) > 6


FetchDone == f_pc = "done"
FetchOk == f_pc = "done" /\ f_result.kind = "Ok"
FetchFailed(variants) ==
  f_pc = "done" /\ f_result.kind = "Err" /\ f_result.error.variant \in variants

\* The arguments passed validation, so the call has a cache file.
HasCacheFile == f_pc \in {"cache", "get", "write", "done"} /\ f_path # NoPath

\* C17: when the cache file of the normalised (basis, element) pair exists,
\* is not empty and is valid JSON, the call returns its path, requests
\* nothing over HTTP and leaves the file as it was.
C17_ValidCacheReturned ==
  (HasCacheFile /\ file_before.exists /\ ~file_before.text.is_empty
     /\ file_before.text.is_json) =>
    /\ f_requests = <<>>
    /\ fs[f_path] = file_before
    /\ f_pc \in {"cache", "done"}
    /\ FetchDone => f_result = [kind |-> "Ok", path |-> f_path]

\* ("hE", "STO-3G") with a cached sto-3g/He.json: the path comes back.
C17_Witness ==
  /\ FetchOk
  /\ f_element = <<"h", "E">>
  /\ f_basis_name = <<"S", "T", "O", "-", "3", "G">>
  /\ file_before = File(CachedJson)
  /\ f_result.path = [dir |-> <<"s", "t", "o", "-", "3", "g">>,
                      file |-> <<"H", "e", ".", "j", "s", "o", "n">>]
  /\ fs[f_result.path] = File(CachedJson)
  /\ f_requests = <<>>

\* An earlier write failed in the white space behind the JSON value: the
\* file that call left is a valid cache, and its path comes back.
C17_WitnessCutInSpace ==
  /\ FetchOk
  /\ file_before = File(Prefix(ServedJson, TRUE))
  /\ fs[f_result.path] = file_before
  /\ f_requests = <<>>

\* C18: when the call fails after contacting the server (request failure,
\* 404, another non-200 status, a body that is not JSON, `elements` absent
\* or empty) the cache file of the pair is as it was before the call: not
\* created, not written.
C18_NoWriteOnServerError ==
  (FetchFailed({"UnknownBasisSet", "NetworkError", "InvalidResponse",
                "ElementNotInBasisSet"}) /\ f_requests # <<>>) =>
    /\ fs[f_path] = file_before
    /\ ~file_before.exists => ~fs[f_path].exists

\* A 200 answer without elements for a pair that had no cache file.
C18_Witness ==
  /\ FetchFailed({"ElementNotInBasisSet"})
  /\ Len(f_requests) = 1
  /\ file_before = NoFile
  /\ fs[f_path] = NoFile
  /\ f_element = <<"U+017F", "I">>
  /\ f_result.error.arg = <<<<"S", "i">>, <<"6", "-", "3", "1", "g">>>>

\* The response of this call passed the status match, the body read, the
\* JSON parse and the elements check: the call went on to create_dir_all.
ResponseAccepted == f_pc \in {"write", "done"} /\ f_body # EmptyText

\* C19: when the cache file exists but is empty or not valid JSON, the call
\* makes exactly one HTTP request and, when the response is accepted, the
\* file holds exactly the response body.
C19_AcceptedResponseStored ==
  (FetchDone /\ HasCacheFile /\ file_before.exists
     /\ (file_before.text.is_empty \/ ~file_before.text.is_json)) =>
    /\ Len(f_requests) = 1
    /\ ResponseAccepted => fs[f_path] = File(f_body)

\* C19 amended: when the cache file exists but is empty or not valid JSON,
\* the call makes exactly one HTTP request, for the normalised pair; when the
\* response is accepted and create_dir_all and the write succeed, the call
\* returns the path and the file holds exactly the response body; when the
\* response is accepted and one of them fails, the call returns IoError and
\* the file is as it was, empty, or a prefix of the body.
C19_RedownloadInvalidCache ==
  (FetchDone /\ HasCacheFile /\ file_before.exists
     /\ (file_before.text.is_empty \/ ~file_before.text.is_json)) =>
    /\ Len(f_requests) = 1
    /\ f_requests[1] = Url(f_path.dir, TitleCase(f_element))
    /\ f_result.kind = "Ok" =>
         /\ ResponseAccepted
         /\ f_result.path = f_path
         /\ fs[f_path] = File(f_body)
         /\ f_body \in ResponseBodies
         /\ f_body.is_json /\ ~f_body.is_empty
    /\ (ResponseAccepted /\ f_result.kind = "Err") =>
         /\ f_result.error.variant = "IoError"
         /\ fs[f_path] \in { file_before, File(EmptyText),
                              File(Prefix(f_body, FALSE)),
                              File(Prefix(f_body, TRUE)) }
    /\ (~ResponseAccepted) =>
         /\ f_result.kind = "Err"
         /\ f_result.error.variant # "IoError"
         /\ fs[f_path] = file_before

\* The cache held text that is not JSON and now holds the served body.
C19_Witness ==
  /\ FetchOk
  /\ file_before = File(GarbageText)
  /\ Len(f_requests) = 1
  /\ f_body = ServedJson
  /\ fs[f_path] = File(ServedJson)

\* A write failed after part of the body: IoError, and the file holds a
\* prefix of the body that is not JSON.
C19_WitnessFailedWrite ==
  /\ FetchFailed({"IoError"})
  /\ file_before = File(GarbageText)
  /\ f_body = ServedJson
  /\ fs[f_path] = File(Prefix(ServedJson, FALSE))
  /\ ~is_valid_cache(fs, f_path)

\* The cache held the part of a body that a failed write left and now
\* holds the served body.
C19_WitnessAfterFailedWrite ==
  /\ FetchOk
  /\ file_before = File(Prefix(NoShellsJson, FALSE))
  /\ Len(f_requests) = 1
  /\ fs[f_path] = File(ServedJson)


ParseDone == p_pc = "done"
ParseOk == p_pc = "done" /\ p_result.kind = "Ok"

\* The number of ElectronShells owed to the first n entries of the file.
RECURSIVE ShellsBefore(_)
ShellsBefore(n) ==
  IF n = 0 THEN 0
  ELSE ShellsBefore(n - 1) + Len(p_doc.entries[n].angular_momentum.items)

\* The f64 values an array of strings stands for.
Values(arr) == [i \in 1..Len(arr.items) |-> parse_f64(arr.items[i].s).value]

\* Entry i became k consecutive shells in the listed order, with the
\* entry's exponents and the j-th coefficient vector each.
SplitInOrder(i) ==
  LET e == p_doc.entries[i]
      shells == p_result.value.shells
  IN \A j \in 1..Len(e.angular_momentum.items) :
       /\ shells[ShellsBefore(i - 1) + j].exponents = Values(e.exponents)
       /\ shells[ShellsBefore(i - 1) + j].coefficients
            = Values(e.coefficients.items[j])

\* The j-th shell of entry i has the j-th listed angular momentum.
MomentaAsListed(i) ==
  LET e == p_doc.entries[i]
      shells == p_result.value.shells
  IN \A j \in 1..Len(e.angular_momentum.items) :
       /\ e.angular_momentum.items[j].hi = 0
       /\ shells[ShellsBefore(i - 1) + j].angular_momentum
            = e.angular_momentum.items[j].lo

\* The first entry with mismatched coefficients, all before it being good,
\* is reported as MalformedShell with its index.
MismatchRejected ==
  \A i \in 1..Len(p_doc.entries) :
    (/\ ParseDone /\ header(p_doc).kind = "Ok"
     /\ p_doc.entries[i] \in MismatchedEntries
     /\ \A h \in 1..(i - 1) : p_doc.entries[h] \in GoodEntries) =>
      /\ p_result.kind = "Err"
      /\ p_result.error.variant = "MalformedShell"
      /\ p_result.error.index = i - 1

\* C20: an entry listing k angular momenta becomes k consecutive
\* ElectronShells in the listed order, the j-th with the j-th angular
\* momentum, the entry's exponents and the j-th coefficient vector; every
\* returned shell has as many coefficients as exponents; an entry with a
\* wrong number of coefficient vectors or a vector of the wrong length is
\* rejected as MalformedShell with its index.
C20_EntriesSplit ==
  /\ ParseOk =>
       /\ Len(p_result.value.shells) = ShellsBefore(Len(p_doc.entries))
       /\ \A i \in 1..Len(p_doc.entries) : SplitInOrder(i) /\ MomentaAsListed(i)
       /\ \A q \in 1..Len(p_result.value.shells) :
            Len(p_result.value.shells[q].coefficients)
              = Len(p_result.value.shells[q].exponents)
  /\ MismatchRejected

\* What holds of C20 whatever the angular momenta: the split, the order,
\* the exponents and coefficient vectors, the equal lengths, the
\* rejections, and each angular momentum as listed modulo 2^32.
C20_EntriesSplitModulo ==
  /\ ParseOk =>
       /\ Len(p_result.value.shells) = ShellsBefore(Len(p_doc.entries))
       /\ \A i \in 1..Len(p_doc.entries) :
            /\ SplitInOrder(i)
            /\ \A j \in 1..Len(p_doc.entries[i].angular_momentum.items) :
                 p_result.value.shells[ShellsBefore(i - 1) + j].angular_momentum
                   = p_doc.entries[i].angular_momentum.items[j].lo
       /\ \A q \in 1..Len(p_result.value.shells) :
            Len(p_result.value.shells[q].coefficients)
              = Len(p_result.value.shells[q].exponents)
  /\ MismatchRejected

\* The f64 nearest to n / 10, for n in 1..99 and no multiple of 10.
Tenths(n) ==
  IF n < 10 THEN F64Finite(FALSE, <<n>>, -1)
  ELSE F64Finite(FALSE, <<n \div 10, n % 10>>, 0)

\* An sp entry behind an s entry: shells s, s, p, the last two sharing the
\* sp exponents and taking the first and second coefficient vector.
C20_Witness ==
  /\ ParseOk
  /\ Len(p_doc.entries) = 2
  /\ p_result.value.shells =
       << ElectronShell(0, <<Tenths(12), Tenths(5)>>, <<Tenths(8), Tenths(4)>>),
          ElectronShell(0, <<F64Finite(FALSE, <<1, 6, 1>>, 1), Tenths(29), Tenths(7)>>,
                        <<Tenths(1), Tenths(5), Tenths(4)>>),
          ElectronShell(1, <<F64Finite(FALSE, <<1, 6, 1>>, 1), Tenths(29), Tenths(7)>>,
                        <<Tenths(2), Tenths(8), Tenths(1)>>) >>

\* The entry of the other spellings under the key "01": hydrogen, with
\* 100, 0.5, 0.5, 5, 1, 0.01, 0.1 and +inf, NaN, -inf, +inf, -0, -0.5, 2^53.
C20_WitnessSpellings ==
  /\ ParseOk
  /\ p_doc.keys = << <<"0", "1">> >>
  /\ p_doc.entries = << Entry(Momenta(<<0>>), ExpsOdd, JArr(<<VecOdd>>)) >>
  /\ p_result.value.element = <<"H">>
  /\ p_result.value.atomic_number = 1
  /\ p_result.value.shells =
       << ElectronShell(0,
            << F64Finite(FALSE, <<1>>, 2), Tenths(5), Tenths(5),
               F64Finite(FALSE, <<5>>, 0), F64Finite(FALSE, <<1>>, 0),
               F64Finite(FALSE, <<1>>, -2), Tenths(1) >>,
            << F64Inf(FALSE), F64NaN, F64Inf(TRUE), F64Inf(FALSE), F64Zero(TRUE),
               F64Finite(TRUE, <<5>>, -1),
               F64Finite(FALSE, <<9, 0, 0, 7, 1, 9, 9, 2, 5, 4, 7, 4, 0, 9, 9, 2>>,
                         15) >>) >>

\* The STO-3G entry under the key "29": copper, with the exponents read to
\* their last digit.  No string of NotNumbers is an f64, no key of BadKeys
\* an atomic number; 4294967295 is a u32 and 4294967296 is not.
C20_WitnessSto ==
  /\ ParseOk
  /\ p_doc.keys = << <<"2", "9">> >>
  /\ p_doc.entries = << Entry(Momenta(<<0>>), ExpsSto, JArr(<<VecSto>>)) >>
  /\ p_result.value.element = <<"C", "u">>
  /\ p_result.value.atomic_number = 29
  /\ p_result.value.shells[1].exponents =
       << F64Finite(FALSE, <<3, 4, 2, 5, 2, 5, 0, 9>>, 0),
          F64Finite(FALSE, <<6, 2, 3, 9, 1, 3, 7>>, -1),
          F64Finite(FALSE, <<1, 6, 8, 8, 5, 5, 4>>, -1) >>
  /\ \A str \in NotNumbers : ~parse_f64(str).ok
  /\ \A key \in BadKeys : header(Doc(TRUE, TRUE, "object", <<key>>, TRUE, <<>>))
                             = InvalidAtomicNumber(key)
  /\ parse_u32(<<"4", "2", "9", "4", "9", "6", "7", "2", "9", "5">>)
       = [ok |-> TRUE, value |-> U32(Half - 1, Half - 1)]
  /\ ~parse_u32(<<"4", "2", "9", "4", "9", "6", "7", "2", "9", "6">>).ok

\* An entry listing the angular momentum 2^32 came back as an s shell.
C20_WitnessWide ==
  /\ ParseOk
  /\ Len(p_doc.entries) = 1
  /\ p_doc.entries[1].angular_momentum.items = <<JU64(1, 0)>>
  /\ p_result.value.shells[1].angular_momentum = 0


Happened(event) == \E k \in 1..Len(g_events) : g_events[k] = event

\* C23 as stated: SingularOverlap is reported before H = T + V is
\* constructed and before anything of H's eigenproblem is computed.
C23_SingularBeforeH ==
  GuessErr("SingularOverlap") =>
    /\ ~Happened("h_core")
    /\ ~Happened("h_prime") /\ ~Happened("evd_h")

\* C23 amended: SingularOverlap is reported after H = T + V was formed and
\* S decomposed, and before X, H' = X^T H X or anything of H's
\* eigenproblem is computed.
C23_SingularBeforeTransform ==
  GuessErr("SingularOverlap") =>
    /\ g_events = <<"h_core", "evd_s">>
    /\ ~Happened("x") /\ ~Happened("h_prime") /\ ~Happened("evd_h")
    /\ x_cols = <<>> /\ energies = <<>> /\ order = <<>>

\* S decomposed to -1, 4: refused with H formed and nothing else done.
C23_Witness ==
  /\ GuessErr("SingularOverlap")
  /\ lambdas_s = <<Num(-1), Num(4)>>
  /\ g_events = <<"h_core", "evd_s">>

\* C24: the checks apply in the order shapes, electron counts, n = 0,
\* positive definiteness, and the first applicable outcome wins; 0 x 0
\* matrices with a positive count give TooManyElectrons with n_basis = 0;
\* TooManyElectrons is returned without S being decomposed.
C24_FirstOutcomeWins ==
  GuessDone =>
    IF ~ShapesConsistent THEN GuessErr("DimensionMismatch")
    ELSE IF n_alpha > s_shape[1] \/ n_beta > s_shape[1]
      THEN /\ GuessErr("TooManyElectrons")
           /\ g_result.error.n_basis = s_shape[1]
           /\ g_events = <<>> /\ lambdas_s = <<>>
    ELSE IF s_shape[1] = 0
      THEN /\ g_result = [kind |-> "Ok", nrows |-> 0, ncols |-> 0, cols |-> <<>>]
           /\ g_events = <<>>
    ELSE IF \E j \in 1..Len(lambdas_s) : ~lambdas_s[j].nan /\ lambdas_s[j].v <= 0
      THEN GuessErr("SingularOverlap")
    ELSE /\ g_result.kind # "Err"
         /\ g_result.kind = "Ok" => g_result.nrows = s_shape[1]

\* 0 x 0 matrices and one alpha electron: TooManyElectrons, n_basis = 0.
C24_Witness ==
  /\ GuessErr("TooManyElectrons")
  /\ s_shape = <<0, 0>> /\ t_shape = <<0, 0>> /\ v_shape = <<0, 0>>
  /\ n_alpha = 1 /\ n_beta = 0
  /\ g_result.error.n_basis = 0
  /\ g_events = <<>>

\* The call returned a matrix whose column order the sort determines: the
\* slice was short or the comparator a total order on the energies.
OrderSpecified == n_of <= SmallSortLen \/ TotalOrder(energies)

\* C25: columns whose energies are exactly equal stay in original index
\* order, the order being the stable sort of 0..n-1 by energy and so a
\* function of the energies alone; this for every basis of up to
\* SmallSortLen functions and for every longer one whose energies the
\* comparator orders totally.
C25_TiesKeepIndexOrder ==
  /\ (g_pc = "sort" /\ OrderSpecified) => Cardinality(sort_by(energies)) = 1
  /\ (GuessOk /\ OrderSpecified) =>
       /\ g_result.cols = order
       /\ Len(order) = n_of
       /\ \A p \in 1..Len(order) : \A q \in 1..Len(order) :
            (/\ p < q
             /\ ~energies[order[p] + 1].nan /\ ~energies[order[q] + 1].nan
             /\ energies[order[p] + 1].v = energies[order[q] + 1].v)
              => order[p] < order[q]

\* Energies 3, 0, 0: the two columns of energy 0 come first, 1 before 2.
C25_Witness ==
  /\ GuessOk
  /\ energies = <<Num(3), Num(0), Num(0)>>
  /\ g_result.cols = <<1, 2, 0>>

\* 21 energies 3, -2, 0 in turn: equal ones keep their index order.
C25_WitnessLong ==
  /\ GuessOk
  /\ n_of = LongN
  /\ \A j \in 1..LongN : ~energies[j].nan
  /\ SubSeq(g_result.cols, 1, 8) = <<0, 3, 6, 9, 12, 15, 18, 1>>

\* C26: the energy sort always completes, NaN energies included: no
\* failure is raised, and the order is a permutation of 0..n-1, so that
\* every column of U' appears exactly once in U'_sorted.
C26_SortCompletesWithNaN ==
  /\ GuessDone => g_result.kind # "Panic"
  /\ (GuessOk /\ n_of > 0 /\ OrderSpecified) =>
       /\ Len(order) = n_of
       /\ { order[k] : k \in 1..n_of } = 0..(n_of - 1)
       /\ g_result.cols = order /\ g_result.ncols = n_of

\* What holds of C26: up to SmallSortLen energies, or more in a total
\* order, are sorted without failure into a permutation of 0..n-1, a
\* NaN energy, comparing equal to every other, keeping its place.
C26_ShortSortCompletes ==
  /\ (g_pc = "sort" /\ OrderSpecified) =>
       \A o \in sort_by(energies) : o.kind = "sorted"
  /\ (GuessDone /\ OrderSpecified) => g_result.kind # "Panic"
  /\ (GuessOk /\ n_of > 0 /\ OrderSpecified) =>
       /\ Len(order) = n_of
       /\ { order[k] : k \in 1..n_of } = 0..(n_of - 1)
       /\ g_result.cols = order /\ g_result.ncols = n_of
       /\ n_of <= SmallSortLen =>
            \A k \in 1..n_of : energies[k].nan => order[k] = k - 1

\* Energies 3, NaN, 0: the NaN column keeps the 3 and the 0 apart.
C26_Witness ==
  /\ GuessOk
  /\ energies = <<Num(3), NaN, Num(0)>>
  /\ g_result.cols = <<0, 1, 2>>

\* 21 energies, NaN among 3, -2 and 0: the sort panicked.
C26_WitnessPanic ==
  /\ GuessDone
  /\ g_result = [kind |-> "Panic"]
  /\ n_of = LongN
  /\ energies[1] = Num(3) /\ energies[2] = Num(-2) /\ energies[7] = NaN

\* The symbols of the first n atoms, each once, in first-occurrence order.
RECURSIVE FirstOccurrences(_)
FirstOccurrences(n) ==
  IF n = 0 THEN <<>>
  ELSE LET before == FirstOccurrences(n - 1)
       IN IF \E k \in 1..Len(before) : before[k] = geometry.symbols[n]
            THEN before
            ELSE Append(before, geometry.symbols[n])

\* C27: the lookups are made in first-occurrence order of the symbols and
\* all of them before any shell or basis function is emitted; the first
\* failing lookup is the last one made, so no symbol first occurring after
\* it is looked up, and nothing is emitted then.
C27_LookupsThenEmission ==
  LET all == FirstOccurrences(Len(geometry.symbols)) IN
  /\ Len(load_calls) <= Len(all)
  /\ load_calls = SubSeq(all, 1, Len(load_calls))
  /\ \A k \in 1..(Len(load_calls) - 1) : load_basis[load_calls[k]].ok
  /\ (pc = "emit" \/ emitted \/ ao # EmptyAo) =>
       /\ load_calls = all
       /\ \A k \in 1..Len(load_calls) : load_basis[load_calls[k]].ok
  /\ ReturnedErr =>
       /\ ~load_basis[load_calls[Len(load_calls)]].ok
       /\ ~emitted /\ ao = EmptyAo

\* Three atoms of three elements, the second lookup failed: the third
\* symbol was never looked up.
C27_Witness ==
  /\ ReturnedErr
  /\ Len(geometry.symbols) = 3
  /\ Cardinality(UniqueSymbols(geometry)) = 3
  /\ load_calls = <<geometry.symbols[1], geometry.symbols[2]>>
  /\ ~emitted


\* The number of shells emitted for the atoms before atom p (1-based).
RECURSIVE ShellsBeforeAtom(_)
ShellsBeforeAtom(p) ==
  IF p = 1 THEN 0 ELSE ShellsBeforeAtom(p - 1) + Len(ShellsOfAtom(p - 1))

\* The number of basis functions owed to the first k shells.
RECURSIVE FunctionsBefore(_, _)
FunctionsBefore(shells, k) ==
  IF k = 0 THEN 0
  ELSE FunctionsBefore(shells, k - 1) + n_cart(u32(shells[k].angular_momentum)).value

\* C28: shell_index runs over all atoms: the shell emitted k-th (atoms in
\* geometry order, shells in definition order, counted from 0) has index k
\* on every one of its Cartesian components, consecutive shells differ by
\* exactly 1, and two atoms of one element have distinct shell indices and
\* each its own copy of the primitive block.
C28_RunningShellIndex ==
  ReturnedOk =>
    LET b == result.value
        shells == AllShells(Len(geometry.symbols))
    IN /\ b.n_shells = Len(shells)
       /\ Len(b.shell_index) = FunctionsBefore(shells, Len(shells))
       /\ \A k \in 1..Len(shells) :
            \A c \in 1..n_cart(u32(shells[k].angular_momentum)).value :
              b.shell_index[FunctionsBefore(shells, k - 1) + c] = k - 1
       /\ \A f \in 1..(Len(b.shell_index) - 1) :
            b.shell_index[f + 1] - b.shell_index[f] \in {0, 1}
       /\ \A p, q \in 1..Len(geometry.symbols) :
            (p < q /\ geometry.symbols[p] = geometry.symbols[q]) =>
              \A j \in 1..Len(ShellsOfAtom(p)) :
                LET kp == ShellsBeforeAtom(p) + j
                    kq == ShellsBeforeAtom(q) + j
                IN /\ kp < kq
                   /\ b.prim_offset[kp] + b.n_primitives[kp] <= b.prim_offset[kq]
                   /\ b.n_primitives[kp] = b.n_primitives[kq]
                   /\ SubSeq(b.exponents, b.prim_offset[kp] + 1,
                             b.prim_offset[kp] + b.n_primitives[kp])
                        = SubSeq(b.exponents, b.prim_offset[kq] + 1,
                                 b.prim_offset[kq] + b.n_primitives[kq])

\* Two atoms of the element with shells s, s, p: six shells, the p shell
\* of the second atom has index 5 on its three components.
C28_Witness ==
  /\ ReturnedOk
  /\ Len(geometry.symbols) = 2
  /\ geometry.symbols[1] = geometry.symbols[2]
  /\ result.value.n_shells = 6
  /\ result.value.shell_index = <<0, 1, 2, 2, 2, 3, 4, 5, 5, 5>>
  /\ Len(result.value.exponents) = 12


\* The arguments name an element and a basis set.
ValidPair ==
  /\ f_element \in { <<"H", "e">>, <<"h", "E">>, <<"s", "I">>, <<"U+017F", "I">> }
  /\ f_basis_name # <<>>

\* The cache path of the pair the arguments name, spelled out for each
\* spelling of the arguments.
PairPath ==
  [dir |-> IF f_basis_name = <<"6", "-", "3", "1", "G">>
             THEN <<"6", "-", "3", "1", "g">>
             ELSE <<"s", "t", "o", "-", "3", "g">>,
   file |-> IF f_element \in { <<"s", "I">>, <<"U+017F", "I">> }
              THEN <<"S", "i", ".", "j", "s", "o", "n">>
              ELSE <<"H", "e", ".", "j", "s", "o", "n">>]

\* C29: once a call has returned Ok for a pair after a download, every
\* later call for that pair, in whatever letter case, returns the same
\* path, requests nothing over HTTP, and the file keeps the first response
\* body.
C29_IdempotentAfterDownload ==
  /\ \A p \in DOMAIN f_first : f_first[p].exists => fs[p] = f_first[p]
  /\ (ValidPair /\ ~f_fresh /\ PairPath \in DOMAIN f_first
        /\ f_first[PairPath].exists) =>
       /\ f_requests = <<>>
       /\ f_pc \in {"validate", "cache", "done"}
       /\ FetchDone => f_result = [kind |-> "Ok", path |-> PairPath]

\* He/sto-3g was downloaded by an earlier call; the present call spells
\* the pair "He", "STO-3G" and gets the path without a request.
C29_Witness ==
  /\ FetchOk
  /\ f_element = <<"H", "e">>
  /\ f_basis_name = <<"S", "T", "O", "-", "3", "G">>
  /\ ~f_fresh
  /\ f_first[PairPath] = File(ServedJson)
  /\ fs[PairPath] = File(ServedJson)
  /\ f_requests = <<>>
  /\ f_result.path = PairPath

\* Si/6-31g was downloaded by an earlier call; the present call spells
\* silicon with the long s and gets the path without a request.  The case
\* mappings take the long s, the dotless i and the Kelvin sign to S, I and
\* k, the ligature fi to two letters and I with dot above to i and a mark.
C29_WitnessLongS ==
  /\ FetchOk
  /\ f_element = <<"U+017F", "I">>
  /\ ~f_fresh
  /\ f_first[PairPath] = File(ServedJson)
  /\ f_requests = <<>>
  /\ f_result.path = CachePath(<<"6", "-", "3", "1", "g">>, <<"S", "i">>)
  /\ normalize_element(<<"U+017F">>) = [ok |-> TRUE, value |-> <<"S">>]
  /\ normalize_element(<<"U+017F", "n">>) = [ok |-> TRUE, value |-> <<"S", "n">>]
  /\ normalize_element(<<"U+0131">>) = [ok |-> TRUE, value |-> <<"I">>]
  /\ normalize_element(<<"U+0131", "n">>) = [ok |-> TRUE, value |-> <<"I", "n">>]
  /\ normalize_element(<<"b", "U+212A">>) = [ok |-> TRUE, value |-> <<"B", "k">>]
  /\ input_normalize_element(<<"U+017F", "i">>) = [ok |-> TRUE, value |-> <<"S", "i">>]
  /\ TitleCase(<<"U+FB01">>) = <<"F", "I">>
  /\ to_lowercase(<<"U+0130">>) = <<"i", "U+0307">>
  /\ ~normalize_element(<<"U+212A">>).ok

\* The file is one is_valid_cache accepts and parse_basis rejects.
BadCache(file) ==
  /\ file.exists /\ ~file.text.is_empty /\ file.text.is_json
  /\ parse_basis(DocOf(file)).kind = "Err"

\* A 200 response with the body b.
Served(b) == [kind |-> "status", status |-> 200, body |-> b]

\* What a call that found a bad cache file has done so far.
BadCacheKept ==
  (HasCacheFile /\ BadCache(file_before)) =>
    /\ f_requests = <<>>
    /\ f_pc \in {"cache", "done"}
    /\ fs[f_path] = file_before
    /\ FetchDone => f_result = [kind |-> "Ok", path |-> f_path]
    /\ l_result.kind # "none" =>
         l_result = [kind |-> "Err", variant |-> "Parse",
                     source |-> parse_basis(DocOf(file_before)).error]

\* A body whose `elements` is missing or empty is refused as a download and
\* not stored, and the same body in the cache is a bad cache file.
EmptyElementsRefused ==
  /\ \A b \in { b \in ResponseBodies : b.is_json /\ elements_field_is_empty(b) } :
       /\ Answer(Served(b), <<"s">>, <<"H">>)
            = FetchErr("ElementNotInBasisSet", <<<<"H">>, <<"s">>>>)
       /\ BadCache(File(b))
  /\ FetchFailed({"ElementNotInBasisSet"}) => fs[f_path] = file_before

\* C30: a cache file that is valid JSON but that parse_basis rejects is
\* never repaired: no step of any call changes it, a call for its pair
\* requests nothing over HTTP and, made through load_basis_impl, returns
\* LoadError::Parse; a download of a body with empty `elements` is refused
\* with ElementNotInBasisSet and not stored.
C30_BadCacheNeverRepaired ==
  /\ [](BadCacheKept /\ EmptyElementsRefused)
  /\ [][\A p \in DOMAIN fs : fs'[p] = fs[p] \/ ~BadCache(fs[p])]_vars

\* The cache held `{"elements": {}}` for He/sto-3g; load_basis_impl returned
\* Parse(NoElements) without a request and the file is still there.
C30_Witness ==
  /\ f_element = <<"h", "E">> /\ f_basis_name = <<"S", "T", "O", "-", "3", "G">>
  /\ file_before = File(EmptyObjectJson)
  /\ fs[f_path] = File(EmptyObjectJson)
  /\ f_requests = <<>>
  /\ l_result = [kind |-> "Err", variant |-> "Parse",
                 source |-> [variant |-> "NoElements", index |-> 0, reason |-> "",
                             key |-> <<>>]]

\* The cache held `{"elements": {"1": {}}}`: Parse(NoElectronShells).
C30_WitnessNoShells ==
  /\ file_before = File(NoShellsJson)
  /\ fs[f_path] = File(NoShellsJson)
  /\ f_requests = <<>>
  /\ l_result.kind = "Err" /\ l_result.variant = "Parse"
  /\ l_result.source.variant = "NoElectronShells"

(***************************************************************************)
(* Properties of parse_cartesian (specification SpecXyz)                   *)
(***************************************************************************)
XyzDone == xyz_pc = "done"

\* `symbols` is a sequence of strings that all name elements.
SymbolsValid ==
  /\ xyz_sym_val.t = "sequence"
  /\ \A k \in 1..Len(xyz_sym_val.items) :
       /\ xyz_sym_val.items[k].t = "string"
       /\ input_normalize_element(xyz_sym_val.items[k].s).ok

\* C22: with valid symbols and a geometry sequence, parse_cartesian returns
\* CoordinateMismatch{n_symbols, n_coords} exactly when the number of
\* geometry entries is not 3 times the number of symbols, and returns that
\* error in no other case; every CartesianGeometry returned has x, y, z as
\* long as symbols, atom i taking entries 3i, 3i+1, 3i+2 times the factor.
C22_CoordinateMismatch ==
  XyzDone =>
    /\ (SymbolsValid /\ xyz_geo_val.t = "sequence") =>
         ((xyz_result = InputErr("CoordinateMismatch", "", <<>>,
                                 Len(xyz_sym_val.items), Len(xyz_geo_val.items)))
            <=> Len(xyz_geo_val.items) # 3 * Len(xyz_sym_val.items))
    /\ (xyz_result.kind = "Err" /\ xyz_result.error.variant = "CoordinateMismatch") =>
         /\ SymbolsValid /\ xyz_geo_val.t = "sequence"
         /\ Len(xyz_geo_val.items) # 3 * Len(xyz_sym_val.items)
    /\ xyz_result.kind = "Ok" =>
         LET g == xyz_result.value
             n == Len(g.symbols)
         IN /\ n = Len(xyz_sym_val.items)
            /\ Len(g.x) = n /\ Len(g.y) = n /\ Len(g.z) = n
            /\ \A i \in 0..(n - 1) :
                 /\ g.x[i + 1] = xyz_geo_val.items[3 * i + 1].v * xyz_factor
                 /\ g.y[i + 1] = xyz_geo_val.items[3 * i + 2].v * xyz_factor
                 /\ g.z[i + 1] = xyz_geo_val.items[3 * i + 3].v * xyz_factor

\* Two symbols and three coordinates, a multiple of three: CoordinateMismatch
\* { n_symbols: 2, n_coords: 3 }.
C22_Witness ==
  /\ XyzDone
  /\ xyz_sym_val = YSeq(<<YStr(<<"h", "E">>), YStr(<<"O">>)>>)
  /\ xyz_geo_val = YSeq(GeoItems(3, 0))
  /\ xyz_result = InputErr("CoordinateMismatch", "", <<>>, 2, 3)

\* Two symbols and six coordinates in angstrom.
C22_WitnessAccepted ==
  /\ XyzDone
  /\ xyz_factor = 2
  /\ xyz_result = [kind |-> "Ok",
                   value |-> [symbols |-> <<<<"H", "e">>, <<"O">>>>,
                              x |-> <<2, 8>>, y |-> <<4, 10>>, z |-> <<6, 12>>]]

(***************************************************************************)
(* Properties of parse_zmatrix (specification SpecZm)                      *)
(***************************************************************************)
ZmDone == zm_pc = "done"
ZmAccepted == zm_pc = "done" /\ zm_result.kind = "Ok"

\* The reference atoms present in a row of the input.
RefsOf(row) ==
  SelectSeq(<<row.bond_atom, row.angle_atom, row.dihedral_atom>>, Has)

\* Row i (0-based) of the input breaks the rule: a reference atom that is
\* no integer in 1..i, or two reference atoms that are the same.
RefViolation(i) ==
  LET refs == RefsOf(zm_val.items[i + 1])
  IN \/ \E k \in 1..Len(refs) : ~(refs[k].t = "int" /\ refs[k].v \in 1..i)
     \/ \E j, k \in 1..Len(refs) : j < k /\ refs[j] = refs[k]

\* Every reference atom stored at row i is in 1..i, and those of one row
\* are pairwise distinct.
StoredRefsOk(g) ==
  \A i \in 0..(Len(g.symbols) - 1) :
    LET refs == SelectSeq(<<g.bond_atoms[i + 1], g.angle_atoms[i + 1],
                            g.dihedral_atoms[i + 1]>>,
                          LAMBDA o : o.some)
    IN /\ \A k \in 1..Len(refs) : refs[k].v \in 1..i
       /\ \A j, k \in 1..Len(refs) : j < k => refs[j].v # refs[k].v

\* The symbol of row i is a string that names an element.
SymbolOk(i) ==
  LET row == zm_val.items[i + 1]
  IN row.symbol.t = "string" /\ input_normalize_element(row.symbol.s).ok

\* C21 as stated: every accepted ZMatrixGeometry has its reference atoms at
\* row i in 1..i and pairwise distinct within the row, and an input with a
\* violation is rejected as InvalidZMatrix carrying the number of a row
\* that has one.
C21_ViolationRejectedAtItsRow ==
  ZmDone =>
    /\ zm_result.kind = "Ok" => StoredRefsOk(zm_result.value)
    /\ \A i \in 0..(Len(zm_val.items) - 1) :
         RefViolation(i) =>
           /\ zm_result.kind = "Err"
           /\ zm_result.error.variant = "InvalidZMatrix"
           /\ zm_result.error.a \in
                { j \in 0..(Len(zm_val.items) - 1) : RefViolation(j) }

\* C21, amended: every accepted ZMatrixGeometry has its reference atoms at
\* row i in 1..i and pairwise distinct within the row; an input with a
\* violation at row i is rejected, at that row or at an earlier one, and
\* when it is rejected at row i the error is InvalidZMatrix carrying i,
\* unless the symbol of row i is a string that names no element, which is
\* InvalidElement.
C21_ViolationRejected ==
  ZmDone =>
    /\ zm_result.kind = "Ok" =>
         /\ StoredRefsOk(zm_result.value)
         /\ Len(zm_result.value.symbols) = Len(zm_val.items)
    /\ \A i \in 0..(Len(zm_val.items) - 1) :
         RefViolation(i) =>
           /\ zm_result.kind = "Err"
           /\ zm_i <= i
           /\ zm_i = i =>
                LET row == zm_val.items[i + 1]
                IN IF row.mapping /\ row.symbol.t = "string" /\ ~SymbolOk(i)
                     THEN zm_result = InputErr("InvalidElement", "", row.symbol.s, 0, 0)
                     ELSE /\ zm_result.error.variant = "InvalidZMatrix"
                          /\ zm_result.error.a = i

\* Row 3 has angle_atom = dihedral_atom = 2 after three good rows:
\* InvalidZMatrix { row: 3 }.
C21_Witness ==
  /\ ZmDone
  /\ Len(zm_val.items) = 4
  /\ zm_val.items[4] = Row(3, YStr(<<"h", "E">>), <<YInt(1), YInt(2), YInt(2)>>)
  /\ zm_i = 3
  /\ zm_result = izm(3, "angle_atom and dihedral_atom must be distinct")

\* Four rows accepted, row 3 referring to rows 3, 2, 1.
C21_WitnessAccepted ==
  /\ ZmAccepted
  /\ zm_result.value.symbols = <<<<"H">>, <<"H">>, <<"H">>, <<"H", "e">>>>
  /\ zm_result.value.bond_atoms = <<None, Some(1), Some(2), Some(3)>>
  /\ zm_result.value.angle_atoms = <<None, None, Some(1), Some(2)>>
  /\ zm_result.value.dihedral_atoms = <<None, None, None, Some(1)>>

\* Row 1 refers to itself and its symbol is "zz": InvalidElement.
C21_WitnessInvalidElement ==
  /\ ZmDone
  /\ Len(zm_val.items) = 2
  /\ zm_val.items[2].bond_atom = YInt(2)
  /\ zm_result = InputErr("InvalidElement", "", <<"z", "z">>, 0, 0)

====
